---- MODULE Spec2Model ----
(***************************************************************************)
(* A model of the CSV codec and import orchestrator of Exopedia            *)
(* (ExoplanetDataManager, utils/dataManager.ts).                           *)
(*                                                                         *)
(* Text is a sequence of one-character strings.  A run of ordinary         *)
(* characters that holds no quote, comma, line break, white space, digit,  *)
(* sign or dot may be written as one symbol (the header cells are).        *)
(***************************************************************************)
EXTENDS Integers, Sequences, FiniteSets, TLC

VARIABLES
    line,        \* parseCSVLine: the line being tokenized
    tok,         \* parseCSVLine: its locals i, current, inQuotes, result
    tokpc,       \* parseCSVLine: "idle" (not running), "loop", "done" (returned)
    cells,       \* the cells a tokenized line was encoded from (<<>>: a raw line)
    data,        \* exportToCSV: the records to export (<<>> when a file is imported)
    includeResult, \* exportToCSV: its flag
    csvContent,  \* importFromCSV: the file text
    lines,       \* importFromCSV: csvContent.trim().split('\n')
    imp,         \* importFromCSV: its locals i, successful, failed
    pc,          \* "idle", "export", "import", "loop" (in the for loop), "done",
                 \* "threw" (exportToCSV ended with an exception)
    nextId,      \* the number of ids crypto.randomUUID() has handed out
    now,         \* the time new Date() reads
    hasUUID,     \* crypto.randomUUID is a function (it is in secure contexts only)
    formData,    \* validateFormData: the texts of the form
    val,         \* validateFormData: the rule it is at (k) and its errors
    valpc,       \* validateFormData: "idle", "rules", "done"
    storage,     \* localStorage: what is stored under STORAGE_KEY
    exoplanets,  \* App: the collection in memory
    isLoading,   \* App: the initial load has not run yet
    dirty,       \* App: the save effect is due (exoplanets or isLoading changed)
    importResult, \* DataImportExport: what is shown of the result of the last
                 \* import (the number of records read, the rows that failed)
    isSubmitting, \* ExoplanetForm: handleSubmit has started and not ended
    isImporting, \* DataImportExport: a file is being read
    reads,       \* the FileReaders started: the text of the file, whether the
                 \* component that started it is still mounted (live), whether
                 \* it has called back (done) and the ids it handed to onImport
    ai           \* analyzeViaAPI: its position, the requests sent, its result

tokVars == <<line, tok, tokpc, cells>>
csvVars == <<data, includeResult, csvContent, lines, imp, pc, nextId, now>>
envVars == <<hasUUID>>
formVars == <<formData, val, valpc>>
appVars == <<storage, exoplanets, isLoading, dirty, importResult>>
uiVars == <<isSubmitting, isImporting, reads, ai>>
vars == <<line, tok, tokpc, cells, data, includeResult, csvContent, lines, imp, pc,
          nextId, now, hasUUID, formData, val, valpc, storage, exoplanets, isLoading,
          dirty, importResult, isSubmitting, isImporting, reads, ai>>

\* what the steps of the tokenizer / of import and export / of the form
\* validation leave alone
notTok == <<csvVars, envVars, formVars, appVars, uiVars>>
notCsv == <<tokVars, envVars, formVars, appVars, uiVars>>
notForm == <<tokVars, csvVars, envVars, appVars, uiVars>>

----------------------------------------------------------------------------
(* Characters *)

QUOTE == "\""
COMMA == ","
LF == "\n"
CR == "\r"
SPACE == " "

\* the code units String.prototype.trim strips that the model's texts use
WhiteSpace == {SPACE, LF, CR}

\* the characters of tokenized lines: one ordinary character and the two
\* the tokenizer gives a meaning to
TokChars == {"a", COMMA, QUOTE}

----------------------------------------------------------------------------
(* Bounds *)

\* longest raw line given to the tokenizer, and the budget (characters plus
\* separators) of a list of cells given to the row encoder
MaxLen == 5

----------------------------------------------------------------------------
(* Text helpers *)

\* all strings over alphabet A of length exactly n / at most n
StrOfLen(A, n) == [1..n -> A]
StrUpTo(A, n) == UNION {StrOfLen(A, k) : k \in 0..n}

\* line[k] of the source, k counted from 0; "" stands for undefined
CharAt(s, k) == IF k + 1 \in 1..Len(s) THEN s[k + 1] ELSE ""

RECURSIVE Join(_, _)
\* Array.prototype.join: the parts with sep between them
Join(parts, sep) ==
    IF Len(parts) = 0 THEN <<>>
    ELSE IF Len(parts) = 1 THEN parts[1]
    ELSE parts[1] \o sep \o Join(Tail(parts), sep)

RECURSIVE Flatten(_)
Flatten(parts) == IF Len(parts) = 0 THEN <<>> ELSE parts[1] \o Flatten(Tail(parts))

----------------------------------------------------------------------------
(* Strings, numbers and dates as the code's library calls treat them *)

\* a missing value (an absent property, an index past the end of an array)
Undefined == <<"undefined">>

\* arr[k] of the source, k counted from 0
At(arr, k) == IF k + 1 \in 1..Len(arr) THEN arr[k + 1] ELSE Undefined

\* a string the code's `x ? ... : ...` and `x || ...` take as present
Truthy(str) == str # Undefined /\ str # <<>>

RECURSIVE trimStart(_)
trimStart(str) ==
    IF str # <<>> /\ str[1] \in WhiteSpace THEN trimStart(Tail(str)) ELSE str

RECURSIVE trimEnd(_)
trimEnd(str) ==
    IF str # <<>> /\ str[Len(str)] \in WhiteSpace
    THEN trimEnd(SubSeq(str, 1, Len(str) - 1))
    ELSE str

\* String.prototype.trim
trim(str) == trimEnd(trimStart(str))

RECURSIVE split(_, _)
\* String.prototype.split with a one-character separator
split(str, sep) ==
    LET at == {k \in 1..Len(str) : str[k] = sep} IN
    IF at = {} THEN <<str>>
    ELSE LET k == CHOOSE x \in at : \A y \in at : x <= y IN
         <<SubSeq(str, 1, k - 1)>> \o split(SubSeq(str, k + 1, Len(str)), sep)

Digits == <<"0", "1", "2", "3", "4", "5", "6", "7", "8", "9">>
IsDigit(c) == \E k \in 1..Len(Digits) : Digits[k] = c
DigitVal(c) == (CHOOSE k \in 1..Len(Digits) : Digits[k] = c) - 1

RECURSIVE DigitPrefix(_)
\* the longest prefix of str made of decimal digits
DigitPrefix(str) ==
    IF str # <<>> /\ IsDigit(str[1]) THEN <<str[1]>> \o DigitPrefix(Tail(str)) ELSE <<>>

RECURSIVE DigitsToInt(_)
DigitsToInt(ds) ==
    IF ds = <<>> THEN 0
    ELSE Len(Digits) * DigitsToInt(SubSeq(ds, 1, Len(ds) - 1)) + DigitVal(ds[Len(ds)])

RECURSIVE IntToDigits(_)
\* the decimal digits of n >= 0
IntToDigits(n) ==
    IF n < Len(Digits) THEN <<Digits[n + 1]>>
    ELSE IntToDigits(n \div Len(Digits)) \o <<Digits[(n % Len(Digits)) + 1]>>

RECURSIVE StripZeros(_)
StripZeros(ds) ==
    IF ds # <<>> /\ ds[Len(ds)] = "0" THEN StripZeros(SubSeq(ds, 1, Len(ds) - 1)) ELSE ds

\* A number is NaN, an infinity (n is its sign, 1 or -1) or the decimal
\* n / 10^d with no trailing zero in its d fraction digits.  Exponents are
\* outside the model's texts.
NaN == [nan |-> TRUE, inf |-> FALSE, n |-> 0, d |-> 0]
Num(n, d) == [nan |-> FALSE, inf |-> FALSE, n |-> n, d |-> d]
Infinity(sign) == [nan |-> FALSE, inf |-> TRUE, n |-> sign, d |-> 0]
isNaN(x) == x.nan

RECURSIVE Pow10(_)
Pow10(d) == IF d = 0 THEN 1 ELSE 10 * Pow10(d - 1)

\* x < m for an integer m (false for NaN, as every comparison with NaN is)
LessThan(x, m) == ~x.nan /\ (IF x.inf THEN x.n < 0 ELSE x.n < m * Pow10(x.d))

\* the word Infinity, written as one symbol
INFINITY == "Infinity"

\* parseFloat: leading white space is skipped, then the longest prefix that is
\* a decimal literal (sign, digits, dot, digits) or a signed Infinity is read;
\* NaN when there is none
parseFloat(str) ==
    LET t == trimStart(str)
        signed == t # <<>> /\ t[1] \in {"-", "+"}
        negative == signed /\ t[1] = "-"
        body == IF signed THEN Tail(t) ELSE t
        int == DigitPrefix(body)
        rest == SubSeq(body, Len(int) + 1, Len(body))
        frac == IF rest # <<>> /\ rest[1] = "." THEN StripZeros(DigitPrefix(Tail(rest)))
                ELSE <<>>
        hasFrac == rest # <<>> /\ rest[1] = "." /\ DigitPrefix(Tail(rest)) # <<>>
        mag == DigitsToInt(int \o frac)
    IN  IF str = Undefined THEN NaN
        ELSE IF body # <<>> /\ body[1] = INFINITY
        THEN Infinity(IF negative THEN 0 - 1 ELSE 1)
        ELSE IF int = <<>> /\ ~hasFrac THEN NaN
        ELSE Num(IF negative THEN 0 - mag ELSE mag, Len(frac))

RECURSIVE PadZeros(_, _)
PadZeros(ds, len) == IF Len(ds) < len THEN PadZeros(<<"0">> \o ds, len) ELSE ds

\* Number.prototype.toString
NumberToString(x) ==
    IF x.nan THEN <<"N", "a", "N">>
    ELSE IF x.inf THEN (IF x.n < 0 THEN <<"-">> ELSE <<>>) \o <<INFINITY>>
    ELSE LET abs == IF x.n < 0 THEN 0 - x.n ELSE x.n
             ds == PadZeros(IntToDigits(abs), x.d + 1)
             int == SubSeq(ds, 1, Len(ds) - x.d)
             frac == SubSeq(ds, Len(ds) - x.d + 1, Len(ds))
         IN  (IF x.n < 0 THEN <<"-">> ELSE <<>>) \o int
             \o (IF x.d > 0 THEN <<".">> \o frac ELSE <<>>)

\* A Date is a time value t (milliseconds) or an Invalid Date.
InvalidDate == [valid |-> FALSE, t |-> 0]
DateOf(t) == [valid |-> TRUE, t |-> t]

\* Date.prototype.toISOString: the time stamp text of a valid date.  The
\* model writes the time stamp t as its digits followed by Z.  On an Invalid
\* Date the call throws a RangeError (ISOStringThrows).
toISOString(date) == IntToDigits(date.t) \o <<"Z">>
ISOStringThrows(date) == ~date.valid

\* new Date(str): the date a time stamp text stands for, an Invalid Date for
\* any other text of the model (texts of letters only)
NewDate(str) ==
    IF Len(str) >= 2 /\ str[Len(str)] = "Z"
          /\ DigitPrefix(str) = SubSeq(str, 1, Len(str) - 1)
    THEN DateOf(DigitsToInt(SubSeq(str, 1, Len(str) - 1)))
    ELSE InvalidDate

----------------------------------------------------------------------------
(* exportToCSV, the encoding of one row *)

\* a mutant of EscapeQuotes: inner quotes are not doubled
EscapeQuotesNone(cell) == cell

\* cell.replace(/"/g, '""')
EscapeQuotes(cell) == Flatten([k \in 1..Len(cell) |->
                          IF cell[k] = QUOTE THEN <<QUOTE, QUOTE>> ELSE <<cell[k]>>])

\* `"${cell.replace(/"/g, '""')}"`
QuoteCell(cell) == <<QUOTE>> \o EscapeQuotes(cell) \o <<QUOTE>>

\* row.map(cell => ...).join(',')
EncodeRow(row) == Join([k \in 1..Len(row) |-> QuoteCell(row[k])], <<COMMA>>)

----------------------------------------------------------------------------
(* parseCSVLine *)

\* the locals at the start of parseCSVLine
TokInit == [i |-> 0, current |-> <<>>, inQuotes |-> FALSE, result |-> <<>>]

\* the branch the loop body takes at index s.i
IsEscapedQuote(ln, s) ==
    CharAt(ln, s.i) = QUOTE /\ s.inQuotes /\ CharAt(ln, s.i + 1) = QUOTE
IsToggleQuote(ln, s) == CharAt(ln, s.i) = QUOTE /\ ~IsEscapedQuote(ln, s)
IsSeparator(ln, s) == CharAt(ln, s.i) = COMMA /\ ~s.inQuotes
IsLiteral(ln, s) == CharAt(ln, s.i) # QUOTE /\ ~IsSeparator(ln, s)

\* a mutant of TokStep: a quote met after other characters of the field is content
TokStepQuoteAtStartOnly(ln, s) ==
    LET char == CharAt(ln, s.i) IN
    IF char = QUOTE /\ (s.inQuotes \/ s.current = <<>>)
    THEN IF s.inQuotes /\ CharAt(ln, s.i + 1) = QUOTE
         THEN [s EXCEPT !.current = Append(@, QUOTE), !.i = @ + 2]
         ELSE [s EXCEPT !.inQuotes = ~@, !.i = @ + 1]
    ELSE IF char = COMMA /\ ~s.inQuotes
         THEN [s EXCEPT !.result = Append(@, s.current), !.current = <<>>, !.i = @ + 1]
         ELSE [s EXCEPT !.current = Append(@, char), !.i = @ + 1]

\* a mutant of TokStep: the comma test forgets the quoted state
TokStepCommaAlways(ln, s) ==
    LET char == CharAt(ln, s.i) IN
    IF char = QUOTE
    THEN IF s.inQuotes /\ CharAt(ln, s.i + 1) = QUOTE
         THEN [s EXCEPT !.current = Append(@, QUOTE), !.i = @ + 2]
         ELSE [s EXCEPT !.inQuotes = ~@, !.i = @ + 1]
    ELSE IF char = COMMA
         THEN [s EXCEPT !.result = Append(@, s.current), !.current = <<>>, !.i = @ + 1]
         ELSE [s EXCEPT !.current = Append(@, char), !.i = @ + 1]

\* a mutant of TokStep: the escaped quote does not skip its second character
TokStepNoSkip(ln, s) ==
    LET char == CharAt(ln, s.i) IN
    IF char = QUOTE
    THEN IF s.inQuotes /\ CharAt(ln, s.i + 1) = QUOTE
         THEN [s EXCEPT !.current = Append(@, QUOTE), !.i = @ + 1]
         ELSE [s EXCEPT !.inQuotes = ~@, !.i = @ + 1]
    ELSE IF char = COMMA /\ ~s.inQuotes
         THEN [s EXCEPT !.result = Append(@, s.current), !.current = <<>>, !.i = @ + 1]
         ELSE [s EXCEPT !.current = Append(@, char), !.i = @ + 1]

\* one pass of the for loop body, the i++ of the loop header included
TokStep(ln, s) ==
    LET char == CharAt(ln, s.i) IN
    IF char = QUOTE
    THEN IF s.inQuotes /\ CharAt(ln, s.i + 1) = QUOTE
         THEN [s EXCEPT !.current = Append(@, QUOTE), !.i = @ + 2]
         ELSE [s EXCEPT !.inQuotes = ~@, !.i = @ + 1]
    ELSE IF char = COMMA /\ ~s.inQuotes
         THEN [s EXCEPT !.result = Append(@, s.current), !.current = <<>>, !.i = @ + 1]
         ELSE [s EXCEPT !.current = Append(@, char), !.i = @ + 1]

\* result.push(current) after the loop
TokFlush(s) == [s EXCEPT !.result = Append(@, s.current)]

RECURSIVE TokRun(_, _)
TokRun(ln, s) == IF s.i < Len(ln) THEN TokRun(ln, TokStep(ln, s)) ELSE TokFlush(s)

\* the fields of one line
parseCSVLine(ln) == TokRun(ln, TokInit).result

----------------------------------------------------------------------------
(* exportToCSV *)

\* the header row
Headers(withResult) ==
    << <<"Name">>, <<"Orbital Period (days)">>, <<"Transit Depth (ppm)">>,
       <<"Transit Duration (hours)">>, <<"Signal-to-Noise Ratio">>,
       <<"Stellar Radius (Solar Radii)">>, <<"Stellar Temperature (K)">>,
       <<"Stellar Magnitude">>, <<"Date Added">>, <<"Notes">> >>
    \o (IF withResult THEN << <<"Result">> >> ELSE <<>>)

\* item.notes || '', item.result || ''
OrEmpty(str) == IF Truthy(str) THEN str ELSE <<>>

\* the row of one record
BaseRow(item, withResult) ==
    << item.name,
       NumberToString(item.orbitalPeriod),
       NumberToString(item.transitDepth),
       NumberToString(item.transitDuration),
       NumberToString(item.signalToNoiseRatio),
       NumberToString(item.stellarProperties.radius),
       NumberToString(item.stellarProperties.temperature),
       NumberToString(item.stellarProperties.magnitude),
       toISOString(item.dateAdded),
       OrEmpty(item.notes) >>
    \o (IF withResult THEN <<OrEmpty(item.result)>> ELSE <<>>)

\* data.map(...) throws at a record whose date has no time stamp text
ExportThrows(items) == \E k \in 1..Len(items) : ISOStringThrows(items[k].dateAdded)

\* the text of the whole file, when no record makes the call throw
exportToCSV(items, withResult) ==
    LET rows == <<Headers(withResult)>>
                \o [k \in 1..Len(items) |-> BaseRow(items[k], withResult)]
    IN  Join([k \in 1..Len(rows) |-> EncodeRow(rows[k])], <<LF>>)

----------------------------------------------------------------------------
(* importFromCSV *)

\* the fewest cells of a row that is read as a record
MinColumns == 8

\* csvContent.trim().split('\n')
SplitLines(text) == split(trim(text), LF)

\* a mutant of ImportInit: the loop starts at the header row
ImportInitAtHeader == [i |-> 0, successful |-> <<>>, failed |-> <<>>]

\* the locals at the start of the loop: the header row (index 0) is skipped
ImportInit == [i |-> 1, successful |-> <<>>, failed |-> <<>>]

\* a mutant of RowNumber: the line index itself
RowNumberIndex(i) == i

\* the row number a failure is reported with
RowNumber(i) == i + 1

\* a mutant of TooFewColumns: a row needs more than MinColumns cells
TooFewColumnsOffByOne(cs) == Len(cs) <= MinColumns

\* cells.length < 8
TooFewColumns(cs) == Len(cs) < MinColumns

\* a mutant of RowRecord: the notes are the tenth cell as it is read
RowRecordNotesAsRead(cs, id, time) ==
    [id |-> id,
     name |-> At(cs, 0),
     orbitalPeriod |-> parseFloat(At(cs, 1)),
     transitDepth |-> parseFloat(At(cs, 2)),
     transitDuration |-> parseFloat(At(cs, 3)),
     signalToNoiseRatio |-> parseFloat(At(cs, 4)),
     stellarProperties |-> [radius |-> parseFloat(At(cs, 5)),
                            temperature |-> parseFloat(At(cs, 6)),
                            magnitude |-> parseFloat(At(cs, 7))],
     dateAdded |-> IF Truthy(At(cs, 8)) THEN NewDate(At(cs, 8)) ELSE DateOf(time),
     notes |-> At(cs, 9),
     result |-> Undefined]

\* the object built from the cells of a row
RowRecord(cs, id, time) ==
    [id |-> id,
     name |-> At(cs, 0),
     orbitalPeriod |-> parseFloat(At(cs, 1)),
     transitDepth |-> parseFloat(At(cs, 2)),
     transitDuration |-> parseFloat(At(cs, 3)),
     signalToNoiseRatio |-> parseFloat(At(cs, 4)),
     stellarProperties |-> [radius |-> parseFloat(At(cs, 5)),
                            temperature |-> parseFloat(At(cs, 6)),
                            magnitude |-> parseFloat(At(cs, 7))],
     dateAdded |-> IF Truthy(At(cs, 8)) THEN NewDate(At(cs, 8)) ELSE DateOf(time),
     notes |-> IF Truthy(At(cs, 9)) THEN At(cs, 9) ELSE Undefined,
     result |-> Undefined]

\* the numbers a row must hold
RequiredNumbers(exoplanet) ==
    << exoplanet.orbitalPeriod, exoplanet.transitDepth, exoplanet.transitDuration,
       exoplanet.signalToNoiseRatio, exoplanet.stellarProperties.radius,
       exoplanet.stellarProperties.temperature, exoplanet.stellarProperties.magnitude >>

\* a mutant of RowIsInvalid: the name is not looked at
RowIsInvalidNumbersOnly(exoplanet) ==
    \E k \in 1..Len(RequiredNumbers(exoplanet)) : isNaN(RequiredNumbers(exoplanet)[k])

\* requiredNumbers.some(isNaN) || !exoplanet.name.trim()
RowIsInvalid(exoplanet) ==
    \/ \E k \in 1..Len(RequiredNumbers(exoplanet)) : isNaN(RequiredNumbers(exoplanet)[k])
    \/ trim(exoplanet.name) = <<>>

Failure(row, error, context) == [row |-> row, error |-> error, data |-> context]

\* a mutant of ImportRow: a failed row ends the loop
ImportRowAbortOnFailure(lns, s, id, time) ==
    LET cs == parseCSVLine(At(lns, s.i))
        exoplanet == RowRecord(cs, id, time)
    IN  IF TooFewColumns(cs)
        THEN [s EXCEPT !.failed = Append(@, Failure(RowNumber(s.i), "Insufficient columns", cs)),
                       !.i = Len(lns)]
        ELSE IF RowIsInvalid(exoplanet)
        THEN [s EXCEPT !.failed = Append(@, Failure(RowNumber(s.i), "Invalid data format", cs)),
                       !.i = Len(lns)]
        ELSE [s EXCEPT !.successful = Append(@, exoplanet), !.i = @ + 1]

\* one pass of the loop body over line s.i, the i++ of the loop header included
ImportRow(lns, s, id, time) ==
    LET cs == parseCSVLine(At(lns, s.i))
        exoplanet == RowRecord(cs, id, time)
    IN  IF TooFewColumns(cs)
        THEN [s EXCEPT !.failed = Append(@, Failure(RowNumber(s.i), "Insufficient columns", cs)),
                       !.i = @ + 1]
        ELSE IF RowIsInvalid(exoplanet)
        THEN [s EXCEPT !.failed = Append(@, Failure(RowNumber(s.i), "Invalid data format", cs)),
                       !.i = @ + 1]
        ELSE [s EXCEPT !.successful = Append(@, exoplanet), !.i = @ + 1]

\* what calling crypto.randomUUID throws where it is not a function
UUIDError == "TypeError: crypto.randomUUID is not a function"

\* a mutant of CatchRow: the error is swallowed and nothing is recorded
CatchRowDropped(lns, s, error) == [s EXCEPT !.i = @ + 1]

\* the catch block of the loop body, the i++ of the loop header included
CatchRow(lns, s, error) ==
    [s EXCEPT !.failed = Append(@, Failure(RowNumber(s.i), "Parse error: " \o error,
                                           At(lns, s.i))),
              !.i = @ + 1]

\* the row draws an id: it has cells enough to get to crypto.randomUUID()
DrawsId(lns, s) == ~TooFewColumns(parseCSVLine(At(lns, s.i)))

\* the try statement of the loop body: the call of crypto.randomUUID throws
\* where it is not a function (uuid is FALSE)
TryRow(uuid, lns, s, id, time) ==
    IF DrawsId(lns, s) /\ ~uuid THEN CatchRow(lns, s, UUIDError)
    ELSE ImportRow(lns, s, id, time)

RECURSIVE ImportRun(_, _, _, _, _)
\* the loop; an id is used up by every row that draws one
ImportRun(uuid, lns, s, id, time) ==
    IF s.i < Len(lns)
    THEN ImportRun(uuid, lns, TryRow(uuid, lns, s, id, time),
                   IF DrawsId(lns, s) /\ uuid THEN id + 1 ELSE id, time)
    ELSE s

\* the result of a whole import
importFromCSV(uuid, text, id, time) ==
    LET s == ImportRun(uuid, SplitLines(text), ImportInit, id, time) IN
    [successful |-> s.successful, failed |-> s.failed]

\* a mutant of IdsUsed: an import uses up no id
IdsUsedNone(uuid, text) == 0

\* the number of ids a whole import uses up
IdsUsed(uuid, text) ==
    LET lns == SplitLines(text) IN
    IF uuid THEN Cardinality({k \in 1..(Len(lns) - 1) : ~TooFewColumns(parseCSVLine(At(lns, k)))})
    ELSE 0

----------------------------------------------------------------------------
(* loadData, saveData *)

\* What localStorage holds under the key is modelled by what JSON.parse makes
\* of it: nothing stored ("missing"), the empty text ("empty"), a text that
\* is no JSON ("garbage"), a JSON value that is no array ("scalar"), or an
\* array of items ("array").  An item is an object with the properties of a
\* record ("object", its date a text or null), an object without properties
\* ("empty"), a number ("number") or null ("null").
NoBlob == [kind |-> "missing"]
EmptyBlob == [kind |-> "empty"]
GarbageBlob == [kind |-> "garbage"]
ScalarBlob == [kind |-> "scalar"]
ArrayBlob(items) == [kind |-> "array", items |-> items]

\* JSON null where a text stands, and where a number stands
JNull == <<"null">>
NullNumber == [nan |-> TRUE, inf |-> TRUE, n |-> 0, d |-> 0]

\* JSON.stringify of a number: NaN and the infinities become null
JsonNumber(x) == IF x.nan \/ x.inf THEN NullNumber ELSE x

\* Date.prototype.toJSON: the time stamp text, null for an Invalid Date
JsonDate(date) == IF date.valid THEN toISOString(date) ELSE JNull

\* the object that holds a date and nothing else
DateOnly(date) == [dateAdded |-> date]

\* JSON.stringify of one object of the collection
JsonOf(r) ==
    IF DOMAIN r = {"dateAdded"} THEN DateOnly(JsonDate(r.dateAdded))
    ELSE [r EXCEPT !.orbitalPeriod = JsonNumber(@),
                   !.transitDepth = JsonNumber(@),
                   !.transitDuration = JsonNumber(@),
                   !.signalToNoiseRatio = JsonNumber(@),
                   !.stellarProperties = [radius |-> JsonNumber(@.radius),
                                          temperature |-> JsonNumber(@.temperature),
                                          magnitude |-> JsonNumber(@.magnitude)],
                   !.dateAdded = JsonDate(@)]

\* JSON.stringify(data)
stringify(items) ==
    ArrayBlob([k \in 1..Len(items) |-> [type |-> "object", rec |-> JsonOf(items[k])]])

\* new Date(item.dateAdded): null is time 0, a missing property no date
ReviveDate(value) == IF value = JNull THEN DateOf(0) ELSE NewDate(value)

\* the callback of parsed.map: ({...item, dateAdded: new Date(item.dateAdded)})
Revive(item) ==
    IF item.type = "object" THEN [item.rec EXCEPT !.dateAdded = ReviveDate(@)]
    ELSE DateOnly(InvalidDate)

\* getItem gave nothing: !stored
LoadsNothing(blob) == blob.kind \in {"missing", "empty"}

\* the try block of loadData throws: JSON.parse on a text that is no JSON,
\* parsed.map on a value that has no map, item.dateAdded on null
LoadThrows(blob) ==
    \/ blob.kind \in {"garbage", "scalar"}
    \/ blob.kind = "array" /\ \E k \in 1..Len(blob.items) : blob.items[k].type = "null"

\* loadData
loadData(blob) ==
    IF LoadsNothing(blob) \/ LoadThrows(blob) THEN <<>>
    ELSE [k \in 1..Len(blob.items) |-> Revive(blob.items[k])]

----------------------------------------------------------------------------
(* validateFormData, formDataToExoplanet *)

\* a mutant of NumericFields: the magnitude has the minimum of the others
NumericFieldsAllMin ==
    << [field |-> "orbitalPeriod", name |-> <<"Orbital Period">>, hasMin |-> TRUE, min |-> 0],
       [field |-> "transitDepth", name |-> <<"Transit Depth">>, hasMin |-> TRUE, min |-> 0],
       [field |-> "transitDuration", name |-> <<"Transit Duration">>, hasMin |-> TRUE, min |-> 0],
       [field |-> "signalToNoiseRatio", name |-> <<"Signal-to-Noise Ratio">>,
        hasMin |-> TRUE, min |-> 0],
       [field |-> "stellarRadius", name |-> <<"Stellar Radius">>, hasMin |-> TRUE, min |-> 0],
       [field |-> "stellarTemperature", name |-> <<"Stellar Temperature">>,
        hasMin |-> TRUE, min |-> 0],
       [field |-> "stellarMagnitude", name |-> <<"Stellar Magnitude">>,
        hasMin |-> TRUE, min |-> 0] >>

\* the numeric rules, in the order they are applied; hasMin is FALSE where
\* min is undefined
NumericFields ==
    << [field |-> "orbitalPeriod", name |-> <<"Orbital Period">>, hasMin |-> TRUE, min |-> 0],
       [field |-> "transitDepth", name |-> <<"Transit Depth">>, hasMin |-> TRUE, min |-> 0],
       [field |-> "transitDuration", name |-> <<"Transit Duration">>, hasMin |-> TRUE, min |-> 0],
       [field |-> "signalToNoiseRatio", name |-> <<"Signal-to-Noise Ratio">>,
        hasMin |-> TRUE, min |-> 0],
       [field |-> "stellarRadius", name |-> <<"Stellar Radius">>, hasMin |-> TRUE, min |-> 0],
       [field |-> "stellarTemperature", name |-> <<"Stellar Temperature">>,
        hasMin |-> TRUE, min |-> 0],
       [field |-> "stellarMagnitude", name |-> <<"Stellar Magnitude">>,
        hasMin |-> FALSE, min |-> 0] >>

\* the error messages
NameRequired == <<"Name is required">>
MustBeNumber(name) == name \o <<" must be a valid number">>
MustBeGreater(name, min) == name \o <<" must be greater than ">> \o NumberToString(Num(min, 0))

\* the locals at the start of validateFormData; rule 0 is the rule of the
\* name, rule k that of numericFields[k - 1]
ValidateInit == [k |-> 0, errors |-> <<>>]

\* the branch rule s.k takes
NameIsBlank(fd) == trim(fd.name) = <<>>
FieldValue(fd, s) == parseFloat(fd[NumericFields[s.k].field])
FieldIsNaN(fd, s) == isNaN(FieldValue(fd, s))
FieldIsBelowMin(fd, s) ==
    /\ ~FieldIsNaN(fd, s)
    /\ NumericFields[s.k].hasMin
    /\ LessThan(FieldValue(fd, s), NumericFields[s.k].min)

\* a mutant of ValidateStep: only the first error is kept
ValidateStepFirstOnly(fd, s) ==
    LET push(msg) == [s EXCEPT !.errors = IF @ = <<>> THEN <<msg>> ELSE @, !.k = @ + 1]
        skip == [s EXCEPT !.k = @ + 1]
    IN  IF s.k = 0
        THEN IF NameIsBlank(fd) THEN push(NameRequired) ELSE skip
        ELSE IF FieldIsNaN(fd, s) THEN push(MustBeNumber(NumericFields[s.k].name))
        ELSE IF FieldIsBelowMin(fd, s)
        THEN push(MustBeGreater(NumericFields[s.k].name, NumericFields[s.k].min))
        ELSE skip

\* the rule of the name (s.k = 0) or one pass of the forEach callback
ValidateStep(fd, s) ==
    LET push(msg) == [s EXCEPT !.errors = Append(@, msg), !.k = @ + 1]
        skip == [s EXCEPT !.k = @ + 1]
    IN  IF s.k = 0
        THEN IF NameIsBlank(fd) THEN push(NameRequired) ELSE skip
        ELSE IF FieldIsNaN(fd, s) THEN push(MustBeNumber(NumericFields[s.k].name))
        ELSE IF FieldIsBelowMin(fd, s)
        THEN push(MustBeGreater(NumericFields[s.k].name, NumericFields[s.k].min))
        ELSE skip

RECURSIVE ValidateRun(_, _)
ValidateRun(fd, s) ==
    IF s.k <= Len(NumericFields) THEN ValidateRun(fd, ValidateStep(fd, s)) ELSE s

\* the errors of a form
validateFormData(fd) == ValidateRun(fd, ValidateInit).errors

\* formData.notes?.trim() || undefined
NotesOf(fd) == IF Truthy(trim(fd.notes)) THEN trim(fd.notes) ELSE Undefined

\* the record made of a form
formDataToExoplanet(fd, id, time) ==
    [id |-> id,
     name |-> trim(fd.name),
     orbitalPeriod |-> parseFloat(fd.orbitalPeriod),
     transitDepth |-> parseFloat(fd.transitDepth),
     transitDuration |-> parseFloat(fd.transitDuration),
     signalToNoiseRatio |-> parseFloat(fd.signalToNoiseRatio),
     stellarProperties |-> [radius |-> parseFloat(fd.stellarRadius),
                            temperature |-> parseFloat(fd.stellarTemperature),
                            magnitude |-> parseFloat(fd.stellarMagnitude)],
     dateAdded |-> DateOf(time),
     notes |-> NotesOf(fd),
     result |-> Undefined]

----------------------------------------------------------------------------
(* The updates of the collection: App.tsx *)

\* a mutant of addExoplanet: the record is put first
addExoplanetFirst(prev, newExoplanet) == <<newExoplanet>> \o prev

\* handleAddExoplanet: prev => [...prev, newExoplanet]
addExoplanet(prev, newExoplanet) == Append(prev, newExoplanet)

\* a mutant of removeById: the records before the one deleted go with it
removeByIdAndBefore(prev, id) ==
    IF \E k \in 1..Len(prev) : prev[k].id = id
    THEN SubSeq(prev, 1 + (CHOOSE k \in 1..Len(prev) : prev[k].id = id), Len(prev))
    ELSE prev

\* handleDeleteExoplanet, confirmed: prev => prev.filter(e => e.id !== id)
removeById(prev, id) == SelectSeq(prev, LAMBDA e : e.id # id)

\* a mutant of mergeImported: the records are taken over one at a time
mergeImportedFirst(prev, importedExoplanets) == Append(prev, importedExoplanets[1])

\* handleImportExoplanets: prev => [...prev, ...importedExoplanets]
mergeImported(prev, importedExoplanets) == prev \o importedExoplanets

\* what the form shows when formDataToExoplanet throws
FailedToAdd == <<"Failed to add exoplanet. Please try again.">>

----------------------------------------------------------------------------
(* AIModelService.analyzeViaAPI: services/aiModelService.ts *)

\* one element of formatDataForModel's result: the flat object of a record
FlatObject(planet) ==
    [name |-> planet.name,
     orbital_period |-> planet.orbitalPeriod,
     transit_depth |-> planet.transitDepth,
     transit_duration |-> planet.transitDuration,
     signal_to_noise_ratio |-> planet.signalToNoiseRatio,
     stellar_radius |-> planet.stellarProperties.radius,
     stellar_temperature |-> planet.stellarProperties.temperature,
     stellar_magnitude |-> planet.stellarProperties.magnitude,
     date_added |-> toISOString(planet.dateAdded),
     notes |-> IF Truthy(planet.notes) THEN planet.notes ELSE <<>>]

\* a mutant of formatDataForModel: the objects are in the reverse order
formatDataForModelReversed(items) ==
    [k \in 1..Len(items) |-> FlatObject(items[Len(items) + 1 - k])]

\* formatDataForModel: data.map(planet => ({...}))
formatDataForModel(items) == [k \in 1..Len(items) |-> FlatObject(items[k])]

\* formatDataForModel throws: planet.dateAdded.toISOString() on an Invalid Date
FormatThrows(items) == \E k \in 1..Len(items) : ISOStringThrows(items[k].dateAdded)

\* the body of the request
RequestBody(items, type) == [data |-> formatDataForModel(items), analysis_type |-> type]

\* the messages of the errors the try block meets
InvalidTimeValue == "Invalid time value"
FailedToFetch == "Failed to fetch"
TimedOut == "The operation timed out."
RequestFailed(status) == "AI API request failed: " \o status
NotJson == "Unexpected token < in JSON"
NullBody == "Cannot read properties of null (reading 'success')"

\* what the catch block returns
Failed(message) == [success |-> FALSE, error |-> message]

\* formatAPIResponse, as far as success and error go
formatAPIResponse(body) ==
    [success |-> body.success, error |-> IF body.hasError THEN body.error ELSE ""]

----------------------------------------------------------------------------
(* The tokenizer run step by step: one action per branch of the loop body *)

\* the raw lines given to the tokenizer
RawLines == StrUpTo(TokChars, MaxLen)

RECURSIVE CellListsWithin(_)
\* the non-empty lists of cells whose characters and separators number at most n + 1
CellListsWithin(n) ==
    {<<c>> : c \in StrUpTo(TokChars, n)}
    \cup UNION {{<<c>> \o rest : rest \in CellListsWithin(n - Len(c) - 1)} :
                    c \in StrUpTo(TokChars, n - 1)}

CellLists == CellListsWithin(MaxLen)

\* the import and export operations are not running
CsvIdle ==
    /\ data = <<>> /\ includeResult = FALSE /\ csvContent = <<>> /\ lines = <<>>
    /\ imp = [i |-> 0, successful |-> <<>>, failed |-> <<>>]
    /\ pc = "idle" /\ nextId = 0 /\ now = 0

\* the form of the page as it is first shown
EmptyForm ==
    [name |-> <<>>, orbitalPeriod |-> <<>>, transitDepth |-> <<>>, transitDuration |-> <<>>,
     signalToNoiseRatio |-> <<>>, stellarRadius |-> <<>>, stellarTemperature |-> <<>>,
     stellarMagnitude |-> <<>>, notes |-> <<>>]

\* the form validation is not running on its own
FormIdle == formData = EmptyForm /\ val = ValidateInit /\ valpc = "idle"

\* no import has been shown
NoResult == [shown |-> FALSE, successful |-> 0, failed |-> <<>>]

\* setImportResult(result): the number of records and the rows of the failures
Shown(result) ==
    [shown |-> TRUE, successful |-> Len(result.successful),
     failed |-> [k \in 1..Len(result.failed) |-> result.failed[k].row]]

\* the page is not running
AppIdle ==
    /\ storage = NoBlob /\ exoplanets = <<>> /\ isLoading = FALSE /\ dirty = FALSE
    /\ importResult = NoResult

\* analyzeViaAPI has not been called: nothing asked, sent, received, returned
NoCall == [pc |-> "idle", type |-> "", sent |-> <<>>, response |-> [kind |-> "none"],
           result |-> [success |-> FALSE, error |-> ""]]

\* no submission, no file read and no analysis is under way
UiIdle == isSubmitting = FALSE /\ isImporting = FALSE /\ reads = <<>> /\ ai = NoCall

InitTok ==
    /\ \/ cells = <<>> /\ line \in RawLines
       \/ cells \in CellLists /\ line = EncodeRow(cells)
    /\ tok = TokInit
    /\ tokpc = "loop"
    /\ CsvIdle
    /\ hasUUID = TRUE
    /\ FormIdle
    /\ AppIdle
    /\ UiIdle

InLoop == tokpc = "loop" /\ tok.i < Len(line)

TokEscapedQuote ==
    /\ InLoop /\ IsEscapedQuote(line, tok)
    /\ tok' = TokStep(line, tok)
    /\ UNCHANGED <<line, tokpc, cells>>
    /\ UNCHANGED notTok

TokToggleQuote ==
    /\ InLoop /\ IsToggleQuote(line, tok)
    /\ tok' = TokStep(line, tok)
    /\ UNCHANGED <<line, tokpc, cells>>
    /\ UNCHANGED notTok

TokSeparator ==
    /\ InLoop /\ IsSeparator(line, tok)
    /\ tok' = TokStep(line, tok)
    /\ UNCHANGED <<line, tokpc, cells>>
    /\ UNCHANGED notTok

TokLiteral ==
    /\ InLoop /\ IsLiteral(line, tok)
    /\ tok' = TokStep(line, tok)
    /\ UNCHANGED <<line, tokpc, cells>>
    /\ UNCHANGED notTok

TokReturn ==
    /\ tokpc = "loop" /\ tok.i >= Len(line)
    /\ tok' = TokFlush(tok)
    /\ tokpc' = "done"
    /\ UNCHANGED <<line, cells>>
    /\ UNCHANGED notTok

NextTok == TokEscapedQuote \/ TokToggleQuote \/ TokSeparator \/ TokLiteral \/ TokReturn

SpecTok == InitTok /\ [][NextTok]_vars

----------------------------------------------------------------------------
(* Export and import run step by step: one action per branch of the loop body *)

\* longest file, in lines (the header, 3 valid rows and 1 failing row of the
\* partial-success example make 5), and longest collection exported
MaxLines == 5
MaxRecords == 2

\* the reading of the clock
StartTime == 5

Unquoted(row) == Join(row, <<COMMA>>)

\* the lines the files are made of
ValidRow == Unquoted(<< <<"a">>, <<"1">>, <<"2">>, <<"3">>, <<"4">>, <<"5">>, <<"6">>,
                        <<"-", "7">> >>)
QuotedRow == EncodeRow(<< <<"b", COMMA, QUOTE>>, <<"1", ".", "5">>, <<"2">>, <<"3">>,
                          <<"4">>, <<"5">>, <<"6">>, <<"7">>, <<"3", "Z">>, <<"n">> >>)
BadDepthRow == Unquoted(<< <<"a">>, <<"1">>, <<"x">>, <<"3">>, <<"4">>, <<"5">>, <<"6">>,
                           <<"7">> >>)
ShortRow == Unquoted(<< <<"a">>, <<"1">>, <<"2">>, <<"3">>, <<"4">> >>)
NoNameRow == Unquoted(<< <<SPACE>>, <<"1">>, <<"2">>, <<"3">>, <<"4">>, <<"5">>, <<"6">>,
                         <<"7">> >>)
BlankLine == <<>>
HeaderRow == Unquoted(Headers(FALSE))

\* the lines a file may start with, and the lines that may follow
FirstLines == {HeaderRow, ValidRow, BlankLine}
LinePool == {ValidRow, QuotedRow, BadDepthRow, ShortRow, NoNameRow, BlankLine}

\* the file texts: a first line and up to MaxLines - 1 lines of the pool,
\* joined by line breaks
Texts ==
    {Join(<<first>> \o rest, <<LF>>) :
        first \in FirstLines,
        rest \in UNION {[1..n -> LinePool] : n \in 0..(MaxLines - 1)}}

\* the records exported, but for their ids
PlainRecord ==
    [id |-> 0, name |-> <<"a">>,
     orbitalPeriod |-> Num(1, 0), transitDepth |-> Num(2, 0),
     transitDuration |-> Num(3, 0), signalToNoiseRatio |-> Num(4, 0),
     stellarProperties |-> [radius |-> Num(5, 0), temperature |-> Num(6, 0),
                            magnitude |-> Num(0 - 15, 1)],
     dateAdded |-> DateOf(1), notes |-> Undefined, result |-> Undefined]
PunctuatedRecord ==
    [PlainRecord EXCEPT !.name = <<"b", COMMA, QUOTE>>, !.notes = <<QUOTE, "n">>,
                        !.dateAdded = DateOf(2)]
LabelledRecord == [PlainRecord EXCEPT !.name = <<"c">>, !.result = <<"p">>]
MultiLineRecord == [PlainRecord EXCEPT !.name = <<"d">>, !.notes = <<"n", LF, "m">>]
\* the record of an imported row whose date cell is no date (new Date('x'))
UndatedRecord == [PlainRecord EXCEPT !.name = <<"e">>, !.dateAdded = InvalidDate]

SampleRecords == {PlainRecord, PunctuatedRecord, LabelledRecord, MultiLineRecord,
                  UndatedRecord}

\* the collections exported: up to MaxRecords records, their ids 0, 1, ...
Collections ==
    {[k \in 1..Len(rs) |-> [rs[k] EXCEPT !.id = k - 1]] :
        rs \in UNION {[1..n -> SampleRecords] : n \in 0..MaxRecords}}

\* the tokenizer is not running on its own
TokIdle == line = <<>> /\ tok = TokInit /\ tokpc = "idle" /\ cells = <<>>

InitCSV ==
    /\ TokIdle
    /\ hasUUID = TRUE
    /\ FormIdle
    /\ AppIdle
    /\ UiIdle
    /\ lines = <<>>
    /\ imp = [i |-> 0, successful |-> <<>>, failed |-> <<>>]
    /\ now = StartTime
    /\ \/ /\ data = <<>> /\ includeResult = FALSE
          /\ csvContent \in Texts
          /\ pc = "import"
          /\ nextId = 0
       \/ /\ data \in Collections /\ includeResult \in BOOLEAN
          /\ csvContent = <<>>
          /\ pc = "export"
          /\ nextId = Len(data)

\* exportToCSV(data, includeResult) ends with an exception
ExportFails ==
    /\ pc = "export" /\ ExportThrows(data)
    /\ pc' = "threw"
    /\ UNCHANGED <<data, includeResult, csvContent, lines, imp, nextId, now>>
    /\ UNCHANGED notCsv

\* exportToCSV(data, includeResult), its text handed to importFromCSV
Export ==
    /\ pc = "export" /\ ~ExportThrows(data)
    /\ csvContent' = exportToCSV(data, includeResult)
    /\ pc' = "import"
    /\ UNCHANGED <<data, includeResult, lines, imp, nextId, now>>
    /\ UNCHANGED notCsv

\* importFromCSV up to the loop
ImportStart ==
    /\ pc = "import"
    /\ lines' = SplitLines(csvContent)
    /\ imp' = ImportInit
    /\ pc' = "loop"
    /\ UNCHANGED <<data, includeResult, csvContent, nextId, now>>
    /\ UNCHANGED notCsv

InRows == pc = "loop" /\ imp.i < Len(lines)

\* the cells of the line the loop is at
CurrentCells == parseCSVLine(At(lines, imp.i))

\* a row with too few cells: no id is drawn
RowInsufficient ==
    /\ InRows /\ TooFewColumns(CurrentCells)
    /\ imp' = ImportRow(lines, imp, nextId, now)
    /\ UNCHANGED <<data, includeResult, csvContent, lines, pc, nextId, now>>
    /\ UNCHANGED notCsv

\* a row whose numbers or name are not valid
RowInvalid ==
    /\ InRows /\ ~TooFewColumns(CurrentCells) /\ hasUUID
    /\ RowIsInvalid(RowRecord(CurrentCells, nextId, now)) = TRUE
    /\ imp' = ImportRow(lines, imp, nextId, now)
    /\ nextId' = nextId + 1
    /\ UNCHANGED <<data, includeResult, csvContent, lines, pc, now>>
    /\ UNCHANGED notCsv

\* a row that becomes a record
RowAccepted ==
    /\ InRows /\ ~TooFewColumns(CurrentCells) /\ hasUUID
    /\ RowIsInvalid(RowRecord(CurrentCells, nextId, now)) = FALSE
    /\ imp' = ImportRow(lines, imp, nextId, now)
    /\ nextId' = nextId + 1
    /\ UNCHANGED <<data, includeResult, csvContent, lines, pc, now>>
    /\ UNCHANGED notCsv

\* return { successful, failed }
ImportReturn ==
    /\ pc = "loop" /\ imp.i >= Len(lines)
    /\ pc' = "done"
    /\ UNCHANGED <<data, includeResult, csvContent, lines, imp, nextId, now>>
    /\ UNCHANGED notCsv

NextCSV == Export \/ ExportFails \/ ImportStart \/ RowInsufficient \/ RowInvalid
           \/ RowAccepted \/ ImportReturn

SpecCSV == InitCSV /\ [][NextCSV]_vars

----------------------------------------------------------------------------
(* Import where crypto.randomUUID may be missing, over files that differ in
   their trailing columns *)

\* most data lines of such a file
MaxRows == 2

\* a valid row followed by more cells
RowWith(more) == Join(<<ValidRow>> \o more, <<COMMA>>)

EmptyDateRow == RowWith(<< <<>> >>)
DatedRow == RowWith(<< <<"3", "Z">> >>)
BadDateRow == RowWith(<< <<"x">> >>)
NotedRow == RowWith(<< <<"3", "Z">>, <<"n">> >>)
EmptyNotesRow == RowWith(<< <<"3", "Z">>, <<>> >>)
NotedUndatedRow == RowWith(<< <<>>, <<"n">> >>)
OpenQuoteRow == <<QUOTE, "a", COMMA>>

TailPool == {ValidRow, EmptyDateRow, DatedRow, BadDateRow, NotedRow, EmptyNotesRow,
             NotedUndatedRow, OpenQuoteRow, BadDepthRow, BlankLine}

\* the file texts: the header and up to MaxRows lines, and texts that are no
\* table at all
TailTexts ==
    {Join(<<HeaderRow>> \o rest, <<LF>>) :
        rest \in UNION {[1..n -> TailPool] : n \in 0..MaxRows}}
    \cup {<<>>, <<QUOTE>>, <<LF, LF>>, <<SPACE, COMMA>>}

InitImport ==
    /\ TokIdle
    /\ FormIdle
    /\ AppIdle
    /\ UiIdle
    /\ hasUUID \in BOOLEAN
    /\ data = <<>> /\ includeResult = FALSE
    /\ csvContent \in TailTexts
    /\ lines = <<>>
    /\ imp = [i |-> 0, successful |-> <<>>, failed |-> <<>>]
    /\ pc = "import"
    /\ nextId = 0
    /\ now = StartTime

\* a row at which crypto.randomUUID() throws: the catch block records it
RowThrows ==
    /\ InRows /\ ~TooFewColumns(CurrentCells) /\ ~hasUUID
    /\ imp' = CatchRow(lines, imp, UUIDError)
    /\ UNCHANGED <<data, includeResult, csvContent, lines, pc, nextId, now>>
    /\ UNCHANGED notCsv

NextImport == ImportStart \/ RowInsufficient \/ RowInvalid \/ RowAccepted \/ RowThrows
              \/ ImportReturn

SpecImport == InitImport /\ [][NextImport]_vars

----------------------------------------------------------------------------
(* Import of files whose lines end in CR LF *)

\* the lines of such a file.  No line ends in a date: what new Date makes of
\* a time stamp followed by CR is left to the implementation.
CRPool == {ValidRow, NotedRow, EmptyNotesRow, NotedUndatedRow, ShortRow, BadDepthRow,
           BlankLine}

\* the file texts: the header and up to MaxRows lines, CR LF between them,
\* with and without a line end after the last one
CRLFTexts ==
    {Join(<<HeaderRow>> \o rest, <<CR, LF>>) \o end :
        rest \in UNION {[1..n -> CRPool] : n \in 0..MaxRows},
        end \in {<<>>, <<CR, LF>>}}

\* the same file with LF line ends
WithLF(text) == SelectSeq(text, LAMBDA c : c # CR)

InitCRLF ==
    /\ TokIdle
    /\ FormIdle
    /\ AppIdle
    /\ UiIdle
    /\ hasUUID \in BOOLEAN
    /\ data = <<>> /\ includeResult = FALSE
    /\ csvContent \in CRLFTexts
    /\ lines = <<>>
    /\ imp = [i |-> 0, successful |-> <<>>, failed |-> <<>>]
    /\ pc = "import"
    /\ nextId = 0
    /\ now = StartTime

SpecCRLF == InitCRLF /\ [][NextImport]_vars

----------------------------------------------------------------------------
(* The form validation run step by step: one action per branch of a rule *)

\* the most fields of a form that hold something else than the number 1
MaxOdd == 2

\* the texts of a name and of a numeric field: empty, blank, a word, a number
\* followed by a letter, zero, negative numbers, Infinity
NameTexts == {<<>>, <<SPACE>>, <<"a">>}
PlainNumber == <<"1">>
FieldTexts == {<<>>, <<"x">>, <<"1", "x">>, <<"0">>, <<"-", "1">>,
               <<"-", "1", ".", "5">>, <<INFINITY>>}

\* the texts of the seven numeric fields, at most MaxOdd of them odd
FieldTuples ==
    UNION {{[k \in 1..Len(NumericFields) |-> IF k \in odd THEN txt[k] ELSE PlainNumber] :
                txt \in [odd -> FieldTexts]} :
            odd \in {S \in SUBSET (1..Len(NumericFields)) : Cardinality(S) <= MaxOdd}}

FormOf(name, t, notes) ==
    [name |-> name, orbitalPeriod |-> t[1], transitDepth |-> t[2], transitDuration |-> t[3],
     signalToNoiseRatio |-> t[4], stellarRadius |-> t[5], stellarTemperature |-> t[6],
     stellarMagnitude |-> t[7], notes |-> notes]

Forms == {FormOf(name, t, <<>>) : name \in NameTexts, t \in FieldTuples}

InitForm ==
    /\ TokIdle
    /\ CsvIdle
    /\ AppIdle
    /\ UiIdle
    /\ hasUUID = TRUE
    /\ formData \in Forms
    /\ val = ValidateInit
    /\ valpc = "rules"

AtNameRule == valpc = "rules" /\ val.k = 0
AtFieldRule == valpc = "rules" /\ val.k \in 1..Len(NumericFields)

\* !formData.name.trim(): 'Name is required'
RuleNameBlank ==
    /\ AtNameRule /\ NameIsBlank(formData)
    /\ val' = ValidateStep(formData, val)
    /\ UNCHANGED <<formData, valpc>>
    /\ UNCHANGED notForm

RuleNameOk ==
    /\ AtNameRule /\ ~NameIsBlank(formData)
    /\ val' = ValidateStep(formData, val)
    /\ UNCHANGED <<formData, valpc>>
    /\ UNCHANGED notForm

\* isNaN(value): '... must be a valid number'
RuleNotANumber ==
    /\ AtFieldRule /\ FieldIsNaN(formData, val)
    /\ val' = ValidateStep(formData, val)
    /\ UNCHANGED <<formData, valpc>>
    /\ UNCHANGED notForm

\* min !== undefined && value < min: '... must be greater than 0'
RuleBelowMin ==
    /\ AtFieldRule /\ FieldIsBelowMin(formData, val)
    /\ val' = ValidateStep(formData, val)
    /\ UNCHANGED <<formData, valpc>>
    /\ UNCHANGED notForm

RuleOk ==
    /\ AtFieldRule /\ ~FieldIsNaN(formData, val) /\ ~FieldIsBelowMin(formData, val)
    /\ val' = ValidateStep(formData, val)
    /\ UNCHANGED <<formData, valpc>>
    /\ UNCHANGED notForm

\* return errors
ValidateReturn ==
    /\ valpc = "rules" /\ val.k > Len(NumericFields)
    /\ valpc' = "done"
    /\ UNCHANGED <<formData, val>>
    /\ UNCHANGED notForm

NextForm == RuleNameBlank \/ RuleNameOk \/ RuleNotANumber \/ RuleBelowMin \/ RuleOk
            \/ ValidateReturn

SpecForm == InitForm /\ [][NextForm]_vars

----------------------------------------------------------------------------
(* The page starts on what localStorage holds: the load effect, then the
   save effect *)

\* most items of a stored array
MaxStored == 2

\* the items of the stored arrays
StoredItems ==
    {[type |-> "object", rec |-> JsonOf(PlainRecord)],
     [type |-> "object", rec |-> JsonOf([UndatedRecord EXCEPT !.id = 1])],
     [type |-> "empty"], [type |-> "number"], [type |-> "null"]}

Blobs ==
    {NoBlob, EmptyBlob, GarbageBlob, ScalarBlob}
    \cup {ArrayBlob(items) : items \in UNION {[1..n -> StoredItems] : n \in 0..MaxStored}}

notApp == <<tokVars, csvVars, envVars, formVars, uiVars>>

InitStore ==
    /\ TokIdle /\ CsvIdle /\ FormIdle /\ UiIdle
    /\ hasUUID = TRUE
    /\ storage \in Blobs
    /\ exoplanets = <<>>
    /\ isLoading = TRUE
    /\ dirty = TRUE
    /\ importResult = NoResult

\* the load effect: nothing is stored
LoadNothing ==
    /\ isLoading /\ LoadsNothing(storage)
    /\ exoplanets' = loadData(storage)
    /\ isLoading' = FALSE
    /\ dirty' = TRUE
    /\ UNCHANGED <<storage, importResult>>
    /\ UNCHANGED notApp

\* the load effect: loadData catches an error
LoadCaught ==
    /\ isLoading /\ ~LoadsNothing(storage) /\ LoadThrows(storage)
    /\ exoplanets' = loadData(storage)
    /\ isLoading' = FALSE
    /\ dirty' = TRUE
    /\ UNCHANGED <<storage, importResult>>
    /\ UNCHANGED notApp

\* the load effect: loadData returns the mapped array
LoadParsed ==
    /\ isLoading /\ ~LoadsNothing(storage) /\ ~LoadThrows(storage)
    /\ exoplanets' = loadData(storage)
    /\ isLoading' = FALSE
    /\ dirty' = TRUE
    /\ UNCHANGED <<storage, importResult>>
    /\ UNCHANGED notApp

\* the save effect of the first render: isLoading is true, nothing is saved
SaveSkipped ==
    /\ isLoading /\ dirty
    /\ dirty' = FALSE
    /\ UNCHANGED <<storage, exoplanets, isLoading, importResult>>
    /\ UNCHANGED notApp

\* a mutant of SaveDone: the effect does not test isLoading
SaveDoneWhileLoading ==
    /\ dirty
    /\ storage' = stringify(exoplanets)
    /\ dirty' = FALSE
    /\ UNCHANGED <<exoplanets, isLoading, importResult>>
    /\ UNCHANGED notApp

\* the save effect: setItem stores the text
SaveDone ==
    /\ ~isLoading /\ dirty
    /\ storage' = stringify(exoplanets)
    /\ dirty' = FALSE
    /\ UNCHANGED <<exoplanets, isLoading, importResult>>
    /\ UNCHANGED notApp

\* the save effect: setItem throws (the quota is used up), saveData catches
SaveCaught ==
    /\ ~isLoading /\ dirty
    /\ dirty' = FALSE
    /\ UNCHANGED <<storage, exoplanets, isLoading, importResult>>
    /\ UNCHANGED notApp

NextStore == LoadNothing \/ LoadCaught \/ LoadParsed \/ SaveSkipped \/ SaveDone
             \/ SaveCaught

SpecStore == InitStore /\ [][NextStore]_vars

----------------------------------------------------------------------------
(* The page: forms are filled in and submitted, files are imported, the
   collection is exported, records are deleted; the save effect follows
   every change *)

\* most ids crypto.randomUUID() hands out
MaxIds == 3

AllOnes == [j \in 1..Len(NumericFields) |-> PlainNumber]

\* the forms filled in: a valid one with a negative magnitude and notes, and
\* one without a name and with a negative orbital period
AppForms ==
    {FormOf(<<"b">>, [AllOnes EXCEPT ![7] = <<"-", "1", ".", "5">>], <<"n">>),
     FormOf(<<>>, [AllOnes EXCEPT ![1] = <<"-", "1">>], <<>>)}

\* a row whose orbital period is negative
NegativeRow == Unquoted(<< <<"g">>, <<"-", "1">>, <<"2">>, <<"3">>, <<"4">>, <<"5">>, <<"6">>,
                           <<"7">> >>)

\* the files imported: one valid row, one row with a negative number, one
\* row whose date is no date, a row that fails between two that do not, a
\* row that fails
AppTexts ==
    {Join(<<HeaderRow, ValidRow>>, <<LF>>),
     Join(<<HeaderRow, NegativeRow>>, <<LF>>),
     Join(<<HeaderRow, BadDateRow>>, <<LF>>),
     Join(<<HeaderRow, ValidRow, ShortRow, NotedRow>>, <<LF>>),
     Join(<<HeaderRow, ShortRow>>, <<LF>>)}

InitApp ==
    /\ TokIdle /\ CsvIdle /\ FormIdle /\ UiIdle
    /\ hasUUID \in BOOLEAN
    /\ storage = NoBlob
    /\ exoplanets = <<>>
    /\ isLoading = TRUE
    /\ dirty = TRUE
    /\ importResult = NoResult

\* the page is shown, no effect is due and no handler is running
Ready == ~isLoading /\ ~dirty /\ ~isSubmitting

\* handleChange, for every field of the form: the texts are entered and the
\* errors shown are cleared
FillForm ==
    /\ Ready
    /\ \E fd \in AppForms : fd # formData /\ formData' = fd
    /\ val' = [val EXCEPT !.errors = <<>>]
    /\ UNCHANGED <<valpc, storage, exoplanets, isLoading, dirty, importResult>>
    /\ UNCHANGED <<tokVars, csvVars, envVars, uiVars>>

\* handleSubmit, the form has errors: they are shown
SubmitRejected ==
    /\ Ready
    /\ validateFormData(formData) # <<>>
    /\ val' = [val EXCEPT !.errors = validateFormData(formData)]
    /\ UNCHANGED <<formData, valpc, storage, exoplanets, isLoading, dirty, importResult>>
    /\ UNCHANGED <<tokVars, csvVars, envVars, uiVars>>

\* handleSubmit, the form has no errors: the record is added, the form reset
SubmitAdded ==
    /\ Ready /\ hasUUID /\ nextId < MaxIds
    /\ validateFormData(formData) = <<>>
    /\ exoplanets' = addExoplanet(exoplanets, formDataToExoplanet(formData, nextId, now))
    /\ nextId' = nextId + 1
    /\ formData' = EmptyForm
    /\ val' = [val EXCEPT !.errors = <<>>]
    /\ dirty' = TRUE
    /\ UNCHANGED <<valpc, storage, isLoading, importResult>>
    /\ UNCHANGED <<data, includeResult, csvContent, lines, imp, pc, now>>
    /\ UNCHANGED <<tokVars, envVars, uiVars>>

\* handleSubmit, formDataToExoplanet throws: the catch block shows an error
SubmitFailed ==
    /\ Ready /\ ~hasUUID
    /\ validateFormData(formData) = <<>>
    /\ val' = [val EXCEPT !.errors = <<FailedToAdd>>]
    /\ UNCHANGED <<formData, valpc, storage, exoplanets, isLoading, dirty, importResult>>
    /\ UNCHANGED <<tokVars, csvVars, envVars, uiVars>>

\* the files that may be selected: the files at hand and the file exported last
Selectable == AppTexts \cup (IF csvContent = <<>> THEN {} ELSE {csvContent})

\* reader.onload, some rows were read: the result is shown and handed to onImport
ImportMerged ==
    /\ Ready
    /\ \E text \in Selectable :
          LET result == importFromCSV(hasUUID, text, nextId, now) IN
          /\ nextId + IdsUsed(hasUUID, text) <= MaxIds
          /\ result.successful # <<>>
          /\ importResult' = Shown(result)
          /\ exoplanets' = mergeImported(exoplanets, result.successful)
          /\ nextId' = nextId + IdsUsed(hasUUID, text)
    /\ dirty' = TRUE
    /\ UNCHANGED <<storage, isLoading>>
    /\ UNCHANGED <<data, includeResult, csvContent, lines, imp, pc, now>>
    /\ UNCHANGED <<tokVars, envVars, formVars, uiVars>>

\* reader.onload, no row was read: the result is shown, onImport is not called
ImportShown ==
    /\ Ready
    /\ \E text \in Selectable :
          LET result == importFromCSV(hasUUID, text, nextId, now) IN
          /\ nextId + IdsUsed(hasUUID, text) <= MaxIds
          /\ result.successful = <<>>
          /\ importResult' = Shown(result)
          /\ nextId' = nextId + IdsUsed(hasUUID, text)
    /\ UNCHANGED <<storage, exoplanets, isLoading, dirty>>
    /\ UNCHANGED <<data, includeResult, csvContent, lines, imp, pc, now>>
    /\ UNCHANGED <<tokVars, envVars, formVars, uiVars>>

\* handleExport: the text of the collection is saved as a file
ExportFile ==
    /\ Ready
    /\ csvContent = <<>>
    /\ exoplanets # <<>> /\ ~ExportThrows(exoplanets)
    /\ csvContent' = exportToCSV(exoplanets, includeResult)
    /\ UNCHANGED <<data, includeResult, lines, imp, pc, nextId, now>>
    /\ UNCHANGED <<tokVars, envVars, formVars, appVars, uiVars>>

\* handleExport: exportToCSV throws, the catch block shows an alert
ExportFailed ==
    /\ Ready
    /\ exoplanets # <<>> /\ ExportThrows(exoplanets)
    /\ UNCHANGED vars

\* handleDeleteExoplanet, the question answered with no
DeleteDeclined ==
    /\ Ready
    /\ exoplanets # <<>>
    /\ UNCHANGED vars

\* a mutant of DeleteConfirmed: the save effect does not follow
DeleteConfirmedUnsaved ==
    /\ Ready
    /\ \E k \in 1..Len(exoplanets) : exoplanets' = removeById(exoplanets, exoplanets[k].id)
    /\ UNCHANGED <<storage, isLoading, dirty, importResult>>
    /\ UNCHANGED notApp

\* handleDeleteExoplanet, the question answered with yes
DeleteConfirmed ==
    /\ Ready
    /\ \E k \in 1..Len(exoplanets) : exoplanets' = removeById(exoplanets, exoplanets[k].id)
    /\ dirty' = TRUE
    /\ UNCHANGED <<storage, isLoading, importResult>>
    /\ UNCHANGED notApp

NextApp == LoadNothing \/ SaveSkipped \/ SaveDone \/ FillForm \/ SubmitRejected
           \/ SubmitAdded \/ SubmitFailed \/ ImportMerged \/ ImportShown \/ ExportFile
           \/ ExportFailed \/ DeleteConfirmed \/ DeleteDeclined

SpecApp == InitApp /\ [][NextApp]_vars

----------------------------------------------------------------------------
(* handleSubmit of the form step by step: it starts, then takes one of its
   three ways to its end *)

\* setIsSubmitting(true)
SubmitStart ==
    /\ Ready
    /\ isSubmitting' = TRUE
    /\ UNCHANGED <<isImporting, reads, ai>>
    /\ UNCHANGED <<tokVars, csvVars, envVars, formVars, appVars>>

\* validationErrors.length > 0: the errors are shown and the handler returns
SubmitErrors ==
    /\ isSubmitting
    /\ validateFormData(formData) # <<>>
    /\ val' = [val EXCEPT !.errors = validateFormData(formData)]
    /\ isSubmitting' = FALSE
    /\ UNCHANGED <<formData, valpc, isImporting, reads, ai>>
    /\ UNCHANGED <<tokVars, csvVars, envVars, appVars>>

\* the try block runs to its end: onAdd(newExoplanet), the form is reset;
\* then the finally block
SubmitAppends ==
    /\ isSubmitting /\ hasUUID /\ nextId < MaxIds
    /\ validateFormData(formData) = <<>>
    /\ exoplanets' = addExoplanet(exoplanets, formDataToExoplanet(formData, nextId, now))
    /\ nextId' = nextId + 1
    /\ formData' = EmptyForm
    /\ val' = [val EXCEPT !.errors = <<>>]
    /\ dirty' = TRUE
    /\ isSubmitting' = FALSE
    /\ UNCHANGED <<valpc, storage, isLoading, importResult, isImporting, reads, ai>>
    /\ UNCHANGED <<data, includeResult, csvContent, lines, imp, pc, now>>
    /\ UNCHANGED <<tokVars, envVars>>

\* formDataToExoplanet throws: the catch block shows an error; then the
\* finally block
SubmitCatches ==
    /\ isSubmitting /\ ~hasUUID
    /\ validateFormData(formData) = <<>>
    /\ val' = [val EXCEPT !.errors = <<FailedToAdd>>]
    /\ isSubmitting' = FALSE
    /\ UNCHANGED <<formData, valpc, isImporting, reads, ai>>
    /\ UNCHANGED <<tokVars, csvVars, envVars, appVars>>

NextSubmit == LoadNothing \/ SaveSkipped \/ SaveDone \/ FillForm \/ SubmitStart
              \/ SubmitErrors \/ SubmitAppends \/ SubmitCatches \/ DeleteConfirmed

SpecSubmit == InitApp /\ [][NextSubmit]_vars

----------------------------------------------------------------------------
(* The file reads of the import tab: handleFileSelect starts a FileReader,
   which calls back later (onload or onerror), after other handlers may have
   run.  Leaving the tab unmounts the component and entering it again mounts
   a new one, while a reader started by the old one still calls back. *)

\* most file reads started
MaxReads == 2

\* the files read: one valid row; a row that fails between two that do not
ReadTexts ==
    {Join(<<HeaderRow, ValidRow>>, <<LF>>),
     Join(<<HeaderRow, ValidRow, ShortRow, NotedRow>>, <<LF>>)}

\* a read as handleFileSelect starts it
Started(text) == [text |-> text, live |-> TRUE, done |-> FALSE, batch |-> <<>>]

\* the reads after a call back of read k that handed the records to onImport
CalledBack(rs, k, records) ==
    [rs EXCEPT ![k].done = TRUE, ![k].batch = [j \in 1..Len(records) |-> records[j].id]]

\* the reads after the component is unmounted
Unmounted(rs) == [k \in 1..Len(rs) |-> [rs[k] EXCEPT !.live = FALSE]]

\* read k has not called back
InFlight(k) == k \in 1..Len(reads) /\ ~reads[k].done

\* the times at which a file is read: the clock stands still
ReadTimes == {0}

\* importFromCSV over the files read, tabulated; every read started finds
\* the counter of ids at MaxIds at most, and so leaves it below its multiple
ImportOf ==
    [uuid \in BOOLEAN, text \in ReadTexts, id \in 0..(MaxReads * MaxIds),
     time \in ReadTimes |->
        importFromCSV(uuid, text, id, time)]

\* the number of ids the import of a file read uses up, tabulated
IdsUsedOf == [uuid \in BOOLEAN, text \in ReadTexts |-> IdsUsed(uuid, text)]

\* the result of the import of the text of read k
ResultOf(k) == ImportOf[hasUUID, reads[k].text, nextId, now]

\* handleFileSelect, no file or a file whose name does not end in .csv:
\* it returns (after an alert)
SelectOther ==
    /\ Ready /\ ~isImporting
    /\ UNCHANGED vars

\* handleFileSelect, a .csv file: setIsImporting(true), reader.readAsText(file)
SelectCsv ==
    /\ Ready /\ ~isImporting
    /\ Len(reads) < MaxReads
    /\ \E text \in ReadTexts :
          /\ nextId + IdsUsedOf[hasUUID, text] <= MaxIds
          /\ reads' = Append(reads, Started(text))
    /\ isImporting' = TRUE
    /\ UNCHANGED <<isSubmitting, ai>>
    /\ UNCHANGED <<tokVars, csvVars, envVars, formVars, appVars>>

\* the import tab is left and entered again: the state of the new component
\* is the initial one
Remount ==
    /\ Ready
    /\ isImporting \/ importResult # NoResult
    /\ isImporting' = FALSE
    /\ importResult' = NoResult
    /\ reads' = Unmounted(reads)
    /\ UNCHANGED <<storage, exoplanets, isLoading, dirty, isSubmitting, ai>>
    /\ UNCHANGED <<tokVars, csvVars, envVars, formVars>>

\* what the state setters of the component leave: they act on the component
\* that started the read, if it is still mounted
AfterCallBack(k, result) ==
    /\ isImporting' = IF reads[k].live THEN FALSE ELSE isImporting
    /\ importResult' = IF reads[k].live THEN result ELSE importResult

\* a mutant of ReadMerged: the records read replace the collection
ReadMergedReplacing(k) ==
    /\ Ready /\ InFlight(k)
    /\ ResultOf(k).successful # <<>>
    /\ exoplanets' = ResultOf(k).successful
    /\ nextId' = nextId + IdsUsedOf[hasUUID, reads[k].text]
    /\ AfterCallBack(k, Shown(ResultOf(k)))
    /\ reads' = CalledBack(reads, k, ResultOf(k).successful)
    /\ dirty' = TRUE
    /\ UNCHANGED <<storage, isLoading, isSubmitting, ai>>
    /\ UNCHANGED <<data, includeResult, csvContent, lines, imp, pc, now>>
    /\ UNCHANGED <<tokVars, envVars, formVars>>

\* reader.onload, some rows were read: the result is shown and handed to
\* onImport; then the finally block
ReadMerged(k) ==
    /\ Ready /\ InFlight(k)
    /\ ResultOf(k).successful # <<>>
    /\ exoplanets' = mergeImported(exoplanets, ResultOf(k).successful)
    /\ nextId' = nextId + IdsUsedOf[hasUUID, reads[k].text]
    /\ AfterCallBack(k, Shown(ResultOf(k)))
    /\ reads' = CalledBack(reads, k, ResultOf(k).successful)
    /\ dirty' = TRUE
    /\ UNCHANGED <<storage, isLoading, isSubmitting, ai>>
    /\ UNCHANGED <<data, includeResult, csvContent, lines, imp, pc, now>>
    /\ UNCHANGED <<tokVars, envVars, formVars>>

\* reader.onload, no row was read: the result is shown, onImport is not
\* called; then the finally block
ReadShown(k) ==
    /\ Ready /\ InFlight(k)
    /\ ResultOf(k).successful = <<>>
    /\ nextId' = nextId + IdsUsedOf[hasUUID, reads[k].text]
    /\ AfterCallBack(k, Shown(ResultOf(k)))
    /\ reads' = CalledBack(reads, k, <<>>)
    /\ UNCHANGED <<storage, exoplanets, isLoading, dirty, isSubmitting, ai>>
    /\ UNCHANGED <<data, includeResult, csvContent, lines, imp, pc, now>>
    /\ UNCHANGED <<tokVars, envVars, formVars>>

\* reader.onload, the try block throws (the text cannot be held or split):
\* the catch block clears the result; then the finally block
ReadThrows(k) ==
    /\ Ready /\ InFlight(k)
    /\ AfterCallBack(k, NoResult)
    /\ reads' = CalledBack(reads, k, <<>>)
    /\ UNCHANGED <<storage, exoplanets, isLoading, dirty, isSubmitting, ai>>
    /\ UNCHANGED <<tokVars, csvVars, envVars, formVars>>

\* a mutant of ReadFailed: isImporting is left as it is
ReadFailedStillImporting(k) ==
    /\ Ready /\ InFlight(k)
    /\ reads' = CalledBack(reads, k, <<>>)
    /\ UNCHANGED <<storage, exoplanets, isLoading, dirty, importResult>>
    /\ UNCHANGED <<isSubmitting, isImporting, ai>>
    /\ UNCHANGED <<tokVars, csvVars, envVars, formVars>>

\* reader.onerror: setIsImporting(false) (after an alert)
ReadFailed(k) ==
    /\ Ready /\ InFlight(k)
    /\ AfterCallBack(k, importResult)
    /\ reads' = CalledBack(reads, k, <<>>)
    /\ UNCHANGED <<storage, exoplanets, isLoading, dirty, isSubmitting, ai>>
    /\ UNCHANGED <<tokVars, csvVars, envVars, formVars>>

\* a reader calls back
ReadEnds == \E k \in 1..MaxReads : ReadMerged(k) \/ ReadShown(k) \/ ReadThrows(k)
                                      \/ ReadFailed(k)

NextRead == LoadNothing \/ SaveSkipped \/ SaveDone \/ FillForm \/ SubmitAdded
            \/ DeleteConfirmed \/ SelectOther \/ SelectCsv \/ Remount \/ ReadEnds

SpecRead == InitApp /\ [][NextRead]_vars

\* the import tab alone: no form is submitted and no record deleted
NextImportTab == LoadNothing \/ SaveSkipped \/ SaveDone \/ SelectOther \/ SelectCsv
                 \/ Remount \/ ReadEnds

SpecImportTab == InitApp /\ [][NextImportTab]_vars

\* the event loop runs the effects that are due and delivers the call back
\* of every reader
LiveImportTab ==
    SpecImportTab /\ WF_vars(LoadNothing) /\ WF_vars(SaveDone) /\ WF_vars(ReadEnds)

----------------------------------------------------------------------------
(* analyzeViaAPI step by step: the request is built and sent, the reply
   awaited, its body awaited *)

\* the analysis types asked for
AnalysisTypes == {"classification", "anomaly_detection"}

\* the bodies a reply may have: JSON null, and objects with or without the
\* properties success and error
ReplyBodies ==
    {[null |-> TRUE, success |-> FALSE, hasError |-> FALSE, error |-> ""],
     [null |-> FALSE, success |-> TRUE, hasError |-> FALSE, error |-> ""],
     [null |-> FALSE, success |-> FALSE, hasError |-> TRUE, error |-> "model error"],
     [null |-> FALSE, success |-> FALSE, hasError |-> FALSE, error |-> ""]}

\* the status lines of the replies that are not OK
BadStatuses == {"500 Internal Server Error", "404 Not Found"}

InitAI ==
    /\ TokIdle /\ FormIdle /\ AppIdle
    /\ hasUUID = TRUE
    /\ data \in Collections /\ includeResult = FALSE /\ csvContent = <<>> /\ lines = <<>>
    /\ imp = [i |-> 0, successful |-> <<>>, failed |-> <<>>]
    /\ pc = "idle" /\ nextId = Len(data) /\ now = StartTime
    /\ isSubmitting = FALSE /\ isImporting = FALSE /\ reads = <<>>
    /\ \E type \in AnalysisTypes : ai = [NoCall EXCEPT !.pc = "call", !.type = type]

notAi == <<tokVars, csvVars, envVars, formVars, appVars, isSubmitting, isImporting, reads>>

\* formatDataForModel throws before fetch is called: the catch block returns
AnalyzeFormatFails ==
    /\ ai.pc = "call" /\ FormatThrows(data)
    /\ ai' = [ai EXCEPT !.pc = "done", !.result = Failed(InvalidTimeValue)]
    /\ UNCHANGED notAi

\* fetch is called with the body
AnalyzeSends ==
    /\ ai.pc = "call" /\ ~FormatThrows(data)
    /\ ai' = [ai EXCEPT !.pc = "waiting", !.sent = Append(@, RequestBody(data, ai.type))]
    /\ UNCHANGED notAi

\* fetch rejects: the network fails
FetchRejects ==
    /\ ai.pc = "waiting"
    /\ ai' = [ai EXCEPT !.pc = "done", !.response = [kind |-> "neterror"],
                        !.result = Failed(FailedToFetch)]
    /\ UNCHANGED notAi

\* fetch rejects: AbortSignal.timeout fires
FetchTimesOut ==
    /\ ai.pc = "waiting"
    /\ ai' = [ai EXCEPT !.pc = "done", !.response = [kind |-> "timeout"],
                        !.result = Failed(TimedOut)]
    /\ UNCHANGED notAi

\* !response.ok: the Error thrown is caught
FetchNotOk ==
    /\ ai.pc = "waiting"
    /\ \E status \in BadStatuses :
          ai' = [ai EXCEPT !.pc = "done", !.response = [kind |-> "status", status |-> status],
                          !.result = Failed(RequestFailed(status))]
    /\ UNCHANGED notAi

\* response.ok: response.json() is awaited
FetchOk ==
    /\ ai.pc = "waiting"
    /\ ai' = [ai EXCEPT !.pc = "reading", !.response = [kind |-> "ok"]]
    /\ UNCHANGED notAi

\* response.json() rejects: the body is no JSON
BodyUnreadable ==
    /\ ai.pc = "reading"
    /\ ai' = [ai EXCEPT !.pc = "done", !.response = [kind |-> "nojson"],
                        !.result = Failed(NotJson)]
    /\ UNCHANGED notAi

\* the body is JSON null: formatAPIResponse throws on response.success
BodyNull ==
    /\ ai.pc = "reading"
    /\ \E body \in ReplyBodies :
          /\ body.null
          /\ ai' = [ai EXCEPT !.pc = "done", !.response = [kind |-> "body", body |-> body],
                              !.result = Failed(NullBody)]
    /\ UNCHANGED notAi

\* return this.formatAPIResponse(result)
BodyRead ==
    /\ ai.pc = "reading"
    /\ \E body \in ReplyBodies :
          /\ ~body.null
          /\ ai' = [ai EXCEPT !.pc = "done", !.response = [kind |-> "body", body |-> body],
                              !.result = formatAPIResponse(body)]
    /\ UNCHANGED notAi

NextAI == AnalyzeFormatFails \/ AnalyzeSends \/ FetchRejects \/ FetchTimesOut \/ FetchNotOk
          \/ FetchOk \/ BodyUnreadable \/ BodyNull \/ BodyRead

SpecAI == InitAI /\ [][NextAI]_vars

----------------------------------------------------------------------------
(* Properties of the row tokenizer (specification SpecTok) *)

\* the character the loop body is about to read
Char == CharAt(line, tok.i)

Last(s) == s[Len(s)]

\* no character of the current field has been read yet: the loop is at the
\* first character of the line or right behind a comma that ended a field
AtFieldStart == tok.i = 0 \/ (CharAt(line, tok.i - 1) = COMMA /\ ~tok.inQuotes)

RECURSIVE SeparatorsFrom(_, _, _)
\* the commas of ln, from index k on, that lie outside quotes when the text
\* before index k leaves the quote state q (a reference count, by the
\* transition table: a quote flips the state, a doubled quote inside quotes
\* does not)
SeparatorsFrom(ln, k, q) ==
    IF k >= Len(ln) THEN 0
    ELSE IF CharAt(ln, k) = QUOTE
         THEN IF q /\ CharAt(ln, k + 1) = QUOTE
              THEN SeparatorsFrom(ln, k + 2, q)
              ELSE SeparatorsFrom(ln, k + 1, ~q)
         ELSE (IF CharAt(ln, k) = COMMA /\ ~q THEN 1 ELSE 0)
              + SeparatorsFrom(ln, k + 1, q)

\* C5: quote safety at row level: tokenizing the row that exportToCSV emits
\* for a list of cells (each wrapped in quotes, inner quotes doubled, joined
\* by commas) returns exactly that list of cells.
C5_RowRoundTrip == (tokpc = "done" /\ cells # <<>>) => tok.result = cells

\* C5 witness: a row of two cells, one holding a comma and a quote, has been
\* encoded and tokenized back.
C5_Witness ==
    /\ tokpc = "done"
    /\ cells = << <<"a", COMMA, QUOTE>>, <<"a">> >>
    /\ tok.result = cells

\* C6 as stated: a quote met in the unquoted state after other characters of
\* the field does not enter the quoted state.
C6_QuoteOnlyAtFieldStart ==
    [][(InLoop /\ ~tok.inQuotes /\ Char = QUOTE /\ ~AtFieldStart)
            => ~tok'.inQuotes]_vars

\* C6 as amended: a quote met in the unquoted state enters the quoted state
\* wherever in the field it is met, and adds nothing to the field.
C6_QuoteAlwaysEntersQuoted ==
    [][(InLoop /\ ~tok.inQuotes /\ Char = QUOTE)
            => /\ tok'.inQuotes
               /\ tok'.current = tok.current
               /\ tok'.result = tok.result
               /\ tok'.i = tok.i + 1]_vars

\* C6 witness: in a",a the quote behind the a opened the quoted state, so the
\* comma after it did not end the field.
C6_Witness ==
    /\ tokpc = "done"
    /\ line = <<"a", QUOTE, COMMA, "a">>
    /\ tok.result = << <<"a", COMMA, "a">> >>

\* C7: a comma read unquoted ends the current field, a comma read quoted is
\* content, the end of the line flushes the current field, and the number of
\* fields returned is 1 + the number of commas read while unquoted.
C7_CommaAndFlush ==
    /\ [][/\ (InLoop /\ Char = COMMA /\ ~tok.inQuotes)
                => /\ tok'.result = Append(tok.result, tok.current)
                   /\ tok'.current = <<>>
                   /\ tok'.inQuotes = tok.inQuotes
          /\ (InLoop /\ Char = COMMA /\ tok.inQuotes)
                => /\ tok'.current = Append(tok.current, COMMA)
                   /\ tok'.result = tok.result
                   /\ tok'.inQuotes = tok.inQuotes
          /\ (InLoop /\ ~(Char = COMMA /\ ~tok.inQuotes))
                => tok'.result = tok.result
          /\ (tokpc = "loop" /\ tok.i >= Len(line))
                => /\ tokpc' = "done"
                   /\ tok'.result = Append(tok.result, tok.current)]_vars
    /\ [](tokpc = "done" =>
            /\ Len(tok.result) = 1 + SeparatorsFrom(line, 0, FALSE)
            /\ (line = <<>> => tok.result = << <<>> >>)
            /\ (Len(line) > 0 /\ Last(line) = COMMA /\ ~tok.inQuotes)
                    => Last(tok.result) = <<>>)

\* C7 witness: ",", has one quoted comma and one unquoted trailing comma: two
\* fields, the second one empty.
C7_Witness ==
    /\ tokpc = "done"
    /\ line = <<QUOTE, COMMA, QUOTE, COMMA>>
    /\ tok.result = << <<COMMA>>, <<>> >>

\* C8: in the quoted state a quote followed by a quote appends one quote,
\* consumes both and stays quoted; a quote not followed by one leaves the
\* quoted state and appends nothing.
C8_QuoteInQuoted ==
    [][(InLoop /\ tok.inQuotes /\ Char = QUOTE)
            => IF CharAt(line, tok.i + 1) = QUOTE
               THEN /\ tok'.current = Append(tok.current, QUOTE)
                    /\ tok'.inQuotes
                    /\ tok'.i = tok.i + 2
                    /\ tok'.result = tok.result
               ELSE /\ ~tok'.inQuotes
                    /\ tok'.current = tok.current
                    /\ tok'.i = tok.i + 1
                    /\ tok'.result = tok.result]_vars

\* C8 witness: """a" was tokenized to the one field "a (a doubled quote read
\* in the quoted state, then a closing quote).
C8_Witness ==
    /\ tokpc = "done"
    /\ line = <<QUOTE, QUOTE, QUOTE, "a", QUOTE>>
    /\ tok.result = << <<QUOTE, "a">> >>

----------------------------------------------------------------------------
(* Properties of importFromCSV and exportToCSV (specification SpecCSV) *)

\* the lines of the file text as written, a line break at the very end
\* tolerated
FileLines ==
    LET ls == split(csvContent, LF) IN
    IF Len(ls) > 1 /\ Last(ls) = <<>> THEN SubSeq(ls, 1, Len(ls) - 1) ELSE ls

\* the lines of the file text once leading and trailing white space is gone
TrimmedLines == split(trim(csvContent), LF)

\* the first n fields of a line (the line's raw tokens)
Tokens(ln) == parseCSVLine(ln)

\* the line has at least 8 tokens, seven parseable numeric tokens and a name
\* that is not empty after trimming
LineIsValid(ln) ==
    LET cs == Tokens(ln) IN
    /\ Len(cs) >= 8
    /\ \A k \in 2..8 : ~isNaN(parseFloat(cs[k]))
    /\ trim(cs[1]) # <<>>

\* what a record holds of its line: the name and the seven numbers
Parsed(ln) ==
    LET cs == Tokens(ln) IN <<cs[1]>> \o [k \in 1..7 |-> parseFloat(cs[k + 1])]
Held(r) ==
    <<r.name, r.orbitalPeriod, r.transitDepth, r.transitDuration, r.signalToNoiseRatio,
      r.stellarProperties.radius, r.stellarProperties.temperature,
      r.stellarProperties.magnitude>>

\* the valid lines among the data lines (all lines but the first) of lns
ValidDataLines(lns) == SelectSeq(Tail(lns), LineIsValid)

\* successful holds, in order, one record per valid data line of lns
RecordsMatch(lns) ==
    LET valid == ValidDataLines(lns) IN
    /\ Len(imp.successful) = Len(valid)
    /\ \A k \in 1..Len(imp.successful) : Held(imp.successful[k]) = Parsed(valid[k])
    /\ \A k \in 1..(Len(imp.successful) - 1) :
          imp.successful[k].id < imp.successful[k + 1].id

RECURSIVE FailingFrom(_, _)
\* the indices (the first line has index 0) of the lines of lns, from index k
\* on, that are not valid
FailingFrom(lns, k) ==
    IF k >= Len(lns) THEN <<>>
    ELSE (IF LineIsValid(At(lns, k)) THEN <<>> ELSE <<k>>) \o FailingFrom(lns, k + 1)

FailedRows == [k \in 1..Len(imp.failed) |-> imp.failed[k].row]

\* C1 as stated: every valid line after the first line of the file text
\* yields a record in successful, in file order, whatever the other lines are.
C1_EveryValidLineOfTheFile == pc = "done" => RecordsMatch(FileLines)

\* C1 as amended: every valid line after the first line of the trimmed file
\* text (csvContent.trim()) yields a record in successful, in file order,
\* whatever the other lines are.
C1_EveryValidLineOfTheTrimmedText == pc = "done" => RecordsMatch(TrimmedLines)

\* C1 witness: a header, 3 valid rows and 1 row with a non-numeric
\* transitDepth gave 3 records and 1 failure.
C1_Witness ==
    /\ pc = "done"
    /\ lines = <<HeaderRow, ValidRow, BadDepthRow, QuotedRow, ValidRow>>
    /\ Len(imp.successful) = 3
    /\ Len(imp.failed) = 1
    /\ imp.successful[2].name = <<"b", COMMA, QUOTE>>

\* C2 as stated: the entries of successful and failed number the lines of the
\* file text (a line break at the end tolerated) minus one.
C2_OneEntryPerFileLine ==
    pc = "done" => Len(imp.successful) + Len(imp.failed) = Len(FileLines) - 1

\* C2 as amended: the first line of the trimmed text is discarded and every
\* other line of the trimmed text, a blank one included, contributes exactly
\* one entry to successful or to failed; a text of one line yields none.
C2_OneEntryPerTrimmedLine ==
    /\ pc \in {"loop", "done"} => Len(imp.successful) + Len(imp.failed) = imp.i - 1
    /\ pc = "done" =>
          /\ imp.i = Len(TrimmedLines)
          /\ Len(TrimmedLines) = 1 => (imp.successful = <<>> /\ imp.failed = <<>>)

\* C2 witness: the first line was a valid data row and was discarded, and the
\* blank line between two rows gave a failure.
C2_Witness ==
    /\ pc = "done"
    /\ csvContent = Join(<<ValidRow, ShortRow, BlankLine, ValidRow>>, <<LF>>)
    /\ Len(imp.successful) = 1
    /\ Len(imp.failed) = 2

\* C3 as stated: a failure carries the index of its line, the header being
\* line 0 (either in the file text as written or in the trimmed text).
C3_RowIsLineIndex ==
    pc = "done" => \/ FailedRows = FailingFrom(FileLines, 1)
                   \/ FailedRows = FailingFrom(TrimmedLines, 1)

\* C3 as amended: a failure carries the index of its line in the trimmed text
\* plus one: the header is row 1 and the first data line is row 2.
C3_RowIsLineIndexPlusOne ==
    pc = "done" =>
        LET failing == FailingFrom(TrimmedLines, 1) IN
        FailedRows = [k \in 1..Len(failing) |-> failing[k] + 1]

\* C3 witness: the first and the third line behind the header failed and are
\* reported as rows 2 and 4.
C3_Witness ==
    /\ pc = "done"
    /\ lines = <<HeaderRow, BadDepthRow, ValidRow, ShortRow>>
    /\ FailedRows = <<2, 4>>

\* the fields of two records other than id; result is compared only when
\* the Result column was exported
SameButId(r, q, withResult) ==
    [r EXCEPT !.id = q.id, !.result = IF withResult THEN @ ELSE q.result] = q

\* the round trip gave no failure and the records of the collection, in order
RoundTripHolds ==
    /\ imp.failed = <<>>
    /\ Len(imp.successful) = Len(data)
    /\ \A k \in 1..Len(data) : SameButId(imp.successful[k], data[k], includeResult)

\* C4: importing the export of a non-empty collection gives no failure and
\* records equal to the originals, in order, in every field other than id,
\* also when name or notes hold commas, quotes or line breaks.
C4_RoundTrip == (pc = "done" /\ data # <<>>) => RoundTripHolds

\* C4 holds of collections whose notes hold no line break and whose records
\* carry no result
C4_RoundTripOfSingleLineUnlabelled ==
    (pc = "done" /\ data # <<>>
        /\ \A k \in 1..Len(data) :
              /\ data[k].result = Undefined
              /\ \A j \in 1..Len(data[k].notes) : data[k].notes[j] # LF)
    => RoundTripHolds

\* the step of the loop body appended one failure and nothing else
FailedWith(error, context) ==
    /\ Len(imp'.failed) = Len(imp.failed) + 1
    /\ SubSeq(imp'.failed, 1, Len(imp.failed)) = imp.failed
    /\ Last(imp'.failed).error = error
    /\ Last(imp'.failed).data = context
    /\ imp'.successful = imp.successful

\* C9: a data line with fewer than 8 fields gives exactly one failure,
\* "Insufficient columns" with the raw tokens, and the loop goes on to the
\* next line; a line with exactly 8 fields is not rejected for its columns.
C9_InsufficientColumns ==
    [][InRows =>
        LET cs == CurrentCells IN
        /\ Len(cs) < 8 =>
              /\ FailedWith("Insufficient columns", cs)
              /\ imp'.i = imp.i + 1
              /\ pc' = "loop"
        /\ Len(cs) = 8 =>
              \/ imp'.failed = imp.failed
              \/ Last(imp'.failed).error # "Insufficient columns"]_vars

\* C9 witness: a row of 5 tokens was rejected for its columns and the row of
\* exactly 8 tokens behind it became a record.
C9_Witness ==
    /\ pc = "done"
    /\ lines = <<HeaderRow, ShortRow, ValidRow>>
    /\ imp.failed = <<Failure(2, "Insufficient columns",
                              << <<"a">>, <<"1">>, <<"2">>, <<"3">>, <<"4">> >>)>>
    /\ Len(imp.successful) = 1

\* C10: a data line with at least 8 fields fails with "Invalid data format"
\* and its raw tokens if and only if one of the seven numeric tokens does not
\* parse or the name is empty after trimming; otherwise it yields a record.
C10_InvalidDataFormat ==
    [][InRows =>
        LET cs == CurrentCells IN
        Len(cs) >= 8 =>
            IF (\E k \in 2..8 : isNaN(parseFloat(cs[k]))) \/ trim(cs[1]) = <<>>
            THEN /\ FailedWith("Invalid data format", cs)
                 /\ imp'.i = imp.i + 1
            ELSE /\ imp'.failed = imp.failed
                 /\ Len(imp'.successful) = Len(imp.successful) + 1
                 /\ SubSeq(imp'.successful, 1, Len(imp.successful)) = imp.successful
                 /\ Held(Last(imp'.successful))
                        = <<cs[1]>> \o [k \in 1..7 |-> parseFloat(cs[k + 1])]
                 /\ imp'.i = imp.i + 1]_vars

\* C10 witness: a row with a blank name and a row with a non-numeric
\* transitDepth both failed with "Invalid data format"; the valid row
\* between them became a record.
C10_Witness ==
    /\ pc = "done"
    /\ lines = <<HeaderRow, NoNameRow, ValidRow, BadDepthRow>>
    /\ Len(imp.failed) = 2
    /\ \A k \in 1..2 : imp.failed[k].error = "Invalid data format"
    /\ imp.failed[1].data[1] = <<SPACE>>
    /\ Len(imp.successful) = 1

----------------------------------------------------------------------------
(* Properties of validateFormData (specification SpecForm) *)

\* the form in which rule k alone reads the text formData gives it: every
\* other field holds a valid value
OnlyRule(k) ==
    IF k = 0
    THEN FormOf(formData.name, [j \in 1..Len(NumericFields) |-> PlainNumber], <<>>)
    ELSE FormOf(<<"a">>,
                [j \in 1..Len(NumericFields) |->
                    IF j = k THEN formData[NumericFields[k].field] ELSE PlainNumber],
                <<>>)

\* C12: validateFormData collects all errors: the rules of the name and of
\* the seven numeric fields are applied independently and in a fixed order,
\* each field that violates its rule gives exactly one error, the list is
\* empty exactly when no field violates its rule, and an empty name with a
\* negative orbital period gives at least two distinct errors.
C12_CollectsAllErrors ==
    valpc = "done" =>
        LET alone == [k \in 0..Len(NumericFields) |-> validateFormData(OnlyRule(k))] IN
        /\ \A k \in DOMAIN alone : Len(alone[k]) <= 1
        /\ val.errors = Flatten([j \in 1..(Len(NumericFields) + 1) |-> alone[j - 1]])
        /\ (val.errors = <<>>) <=> (\A k \in DOMAIN alone : alone[k] = <<>>)
        /\ (trim(formData.name) = <<>> /\ LessThan(parseFloat(formData.orbitalPeriod), 0))
                => Cardinality({val.errors[j] : j \in 1..Len(val.errors)}) >= 2

\* C12 witness: an empty name and the orbital period -1 gave the two errors
\* of these fields, in the order of the rules.
C12_Witness ==
    /\ valpc = "done"
    /\ formData.name = <<>> /\ formData.orbitalPeriod = <<"-", "1">>
    /\ val.errors = << <<"Name is required">>,
                       <<"Orbital Period", " must be greater than ", "0">> >>

\* the six fields that have the minimum 0
MinFields == {k \in 1..Len(NumericFields) : NumericFields[k].field # "stellarMagnitude"}

\* a text stands for a finite real: read as generously as parseFloat reads
\* (a numeric prefix is enough), it is a number and not an infinity
IsFiniteReal(text) == ~parseFloat(text).nan /\ ~parseFloat(text).inf

\* the errors about the field of rule k
NotNumberError(k) == <<NumericFields[k].name[1], " must be a valid number">>
NotGreaterError(k) == <<NumericFields[k].name[1], " must be greater than ", "0">>
Reported(msg) == \E j \in 1..Len(val.errors) : val.errors[j] = msg

\* C13: each of the six fields with a minimum is reported as "must be a valid
\* number" whenever its text is not a finite real (empty, not numeric, or
\* infinite), else as "must be greater than 0" exactly when its value is
\* below 0, and is not reported when its value is 0 or more.
C13_NumberRule ==
    valpc = "done" =>
        \A k \in MinFields :
            LET text == formData[NumericFields[k].field] IN
            IF ~IsFiniteReal(text)
            THEN Reported(NotNumberError(k)) /\ ~Reported(NotGreaterError(k))
            ELSE IF LessThan(parseFloat(text), 0)
            THEN Reported(NotGreaterError(k)) /\ ~Reported(NotNumberError(k))
            ELSE ~Reported(NotGreaterError(k)) /\ ~Reported(NotNumberError(k))

\* every field but the magnitude holds a valid value
OthersValid == validateFormData([formData EXCEPT !.stellarMagnitude = PlainNumber]) = <<>>

\* C14: the magnitude has no minimum: it is never reported as too small, a
\* form whose other fields are valid and whose magnitude is a negative number
\* has no errors, and a magnitude that is not a number is still reported as
\* "must be a valid number".
C14_MagnitudeException ==
    valpc = "done" =>
        LET magnitude == parseFloat(formData.stellarMagnitude) IN
        /\ \A j \in 1..Len(val.errors) :
                ~(val.errors[j][1] = "Stellar Magnitude"
                    /\ val.errors[j][2] = " must be greater than ")
        /\ (OthersValid /\ LessThan(magnitude, 0)) => val.errors = <<>>
        /\ magnitude.nan => Reported(<<"Stellar Magnitude", " must be a valid number">>)

\* C14 witness: a form with the magnitude -1.5 and valid other fields was
\* validated and has no errors.
C14_Witness ==
    /\ valpc = "done"
    /\ formData.stellarMagnitude = <<"-", "1", ".", "5">>
    /\ OthersValid
    /\ val.errors = <<>>

----------------------------------------------------------------------------
(* Properties of importFromCSV where crypto.randomUUID may be missing
   (specification SpecImport) *)

\* the try block raises an error at the line of index k
Raises(k) == ~hasUUID /\ Len(Tokens(lines[k + 1])) >= MinColumns

\* C17: importFromCSV is total: on every text the loop passes every line
\* after the first and returns; each line it has passed left exactly one
\* entry in successful or failed, and a line at which an error was raised
\* left a failure that names its row, has a parse-error message and holds the
\* raw text of the line.
C17_ImportIsTotal ==
    /\ pc \in {"import", "loop", "done"}
    /\ pc \in {"loop", "done"} =>
        /\ lines = TrimmedLines
        /\ imp.i \in 1..Len(lines)
        /\ pc = "done" => imp.i = Len(lines)
        /\ Len(imp.successful) + Len(imp.failed) = imp.i - 1
        /\ \A k \in 1..(imp.i - 1) :
              Raises(k) =>
                \E j \in 1..Len(imp.failed) :
                    /\ imp.failed[j].row = k + 1
                    /\ imp.failed[j].error
                          = "Parse error: TypeError: crypto.randomUUID is not a function"
                    /\ imp.failed[j].data = lines[k + 1]

\* C17 witness: an import has returned whose first data line raised an error
\* and is recorded with its raw text, and whose second data line, with an
\* unbalanced quote, is recorded as well.
C17_Witness ==
    /\ pc = "done"
    /\ ~hasUUID
    /\ lines = <<HeaderRow, ValidRow, OpenQuoteRow>>
    /\ Len(imp.failed) = 2
    /\ imp.failed[1].data = ValidRow
    /\ imp.failed[2].error = "Insufficient columns"

\* the loop is at a line that it accepts
Accepting == InRows /\ Len(imp'.successful) = Len(imp.successful) + 1

\* the date a row gets: that of token 9 when present and not empty, else the
\* time of the import
DateFor(cs) == IF Len(cs) >= 9 /\ cs[9] # <<>> THEN NewDate(cs[9]) ELSE DateOf(now)

\* C18 as stated: an accepted line takes its date from token 9 when that
\* token is present and not empty and the import time otherwise, and its
\* notes from token 10 whenever that token is present; a valid line with
\* exactly 8 tokens is accepted.
C18_NotesWhenPresent ==
    [][/\ Accepting =>
            LET cs == CurrentCells
                r == Last(imp'.successful) IN
            /\ r.dateAdded = DateFor(cs)
            /\ r.notes = IF Len(cs) >= 10 THEN cs[10] ELSE Undefined
       /\ (InRows /\ hasUUID /\ Len(CurrentCells) = MinColumns
                /\ LineIsValid(lines[imp.i + 1]))
            => Accepting]_vars

\* C18 as amended: the notes are token 10 when that token is present and not
\* empty, and absent otherwise: a missing column and an empty one are treated
\* alike for the notes as for the date.
C18_NotesWhenNotEmpty ==
    [][/\ Accepting =>
            LET cs == CurrentCells
                r == Last(imp'.successful) IN
            /\ r.dateAdded = DateFor(cs)
            /\ r.notes = IF Len(cs) >= 10 /\ cs[10] # <<>> THEN cs[10] ELSE Undefined
       /\ (InRows /\ hasUUID /\ Len(CurrentCells) = MinColumns
                /\ LineIsValid(lines[imp.i + 1]))
            => Accepting]_vars

\* C18 witness: of two accepted lines the first has an empty date column and
\* the second a date and an empty notes column: the first got the import
\* time, the second its own date, and both have no notes.
C18_Witness ==
    /\ pc = "done"
    /\ lines = <<HeaderRow, EmptyDateRow, EmptyNotesRow>>
    /\ Len(imp.successful) = 2
    /\ imp.successful[1].dateAdded = DateOf(now)
    /\ imp.successful[1].notes = Undefined
    /\ imp.successful[2].dateAdded = DateOf(3)
    /\ imp.successful[2].notes = Undefined

----------------------------------------------------------------------------
(* Properties of exportToCSV (specification SpecCSV) *)

RECURSIVE Undoubled(_)
\* the content of a quoted cell, each pair of quotes read as one quote
Undoubled(content) ==
    IF content = <<>> THEN <<>>
    ELSE IF content[1] = QUOTE THEN <<QUOTE>> \o Undoubled(SubSeq(content, 3, Len(content)))
    ELSE <<content[1]>> \o Undoubled(Tail(content))

RECURSIVE QuotedRows(_, _, _, _)
\* A reading of a text as a table in which every cell is wrapped in quotes
\* and an inner quote is written twice: cells are parted by commas and rows
\* by line breaks that stand outside the quotes.  A cell starts at index k
\* (from 1); the quote that closes it is the first one behind an even number
\* of quotes that is not followed by a quote.  ok is FALSE when the text is
\* no such table.
QuotedRows(text, k, row, rows) ==
    LET closing == {j \in (k + 1)..Len(text) :
                        /\ text[j] = QUOTE
                        /\ Cardinality({i \in (k + 1)..j : text[i] = QUOTE}) % 2 = 1
                        /\ CharAt(text, j) # QUOTE}
        j == CHOOSE x \in closing : \A y \in closing : x <= y
        cell == Undoubled(SubSeq(text, k + 1, j - 1))
    IN  IF k > Len(text) \/ text[k] # QUOTE \/ closing = {}
        THEN [ok |-> FALSE, rows |-> rows]
        ELSE IF j = Len(text)
        THEN [ok |-> TRUE, rows |-> Append(rows, Append(row, cell))]
        ELSE IF text[j + 1] = COMMA
        THEN QuotedRows(text, j + 2, Append(row, cell), rows)
        ELSE IF text[j + 1] = LF
        THEN QuotedRows(text, j + 2, <<>>, Append(rows, Append(row, cell)))
        ELSE [ok |-> FALSE, rows |-> rows]

\* the text is a table of quoted cells that has the header row and then one
\* row per record of items, in order, every row with the cells of the header
ExportFormat(text, items, withResult) ==
    LET table == QuotedRows(text, 1, <<>>, <<>>)
        width == IF withResult THEN 11 ELSE 10
    IN  /\ table.ok
        /\ Len(table.rows) = 1 + Len(items)
        /\ \A k \in 1..Len(table.rows) : Len(table.rows[k]) = width
        /\ SubSeq(table.rows[1], 1, 10)
              = << <<"Name">>, <<"Orbital Period (days)">>, <<"Transit Depth (ppm)">>,
                   <<"Transit Duration (hours)">>, <<"Signal-to-Noise Ratio">>,
                   <<"Stellar Radius (Solar Radii)">>, <<"Stellar Temperature (K)">>,
                   <<"Stellar Magnitude">>, <<"Date Added">>, <<"Notes">> >>
        /\ withResult => table.rows[1][11] = <<"Result">>
        /\ \A k \in 1..Len(items) :
              LET row == table.rows[k + 1] IN
              /\ row[1] = items[k].name
              /\ row[2] = NumberToString(items[k].orbitalPeriod)
              /\ row[10] = IF items[k].notes = Undefined THEN <<>> ELSE items[k].notes
              /\ withResult =>
                    row[11] = IF items[k].result = Undefined THEN <<>> ELSE items[k].result

\* C19: exportToCSV emits the fixed header row and then exactly one row per
\* record, in the order of the collection; every row has 10 cells, or 11
\* with the Result column when the flag is set; every cell is wrapped in
\* quotes with its inner quotes doubled; absent notes and result are empty
\* cells.
C19_ExportFormat ==
    [][pc = "export" => (pc' = "import" /\ ExportFormat(csvContent', data, includeResult))]_vars

\* C19 holds of the collections whose records all have a valid date
C19_ExportFormatOfDated ==
    [][(pc = "export" /\ \A k \in 1..Len(data) : data[k].dateAdded.valid)
            => (pc' = "import" /\ ExportFormat(csvContent', data, includeResult))]_vars

----------------------------------------------------------------------------
(* Properties of loadData and saveData (specification SpecStore) *)

\* what is stored is a serialized collection of records
IsRecordCollection(blob) ==
    blob.kind = "array" /\ \A k \in 1..Len(blob.items) : blob.items[k].type = "object"

\* C20: the load gives the empty collection whenever what is stored is
\* missing or is anything other than a serialized collection of records
\* (a text that cannot be parsed, a value that is no array, an array of
\* values that are no records), and a save, failed or not, leaves the
\* collection in memory as it is.
C20_PersistenceNeverRaises ==
    [][/\ (isLoading /\ ~isLoading')
            => (IsRecordCollection(storage) \/ exoplanets' = <<>>)
       /\ (dirty /\ ~dirty')
            => /\ exoplanets' = exoplanets
               /\ storage' = storage \/ storage' = stringify(exoplanets)]_vars

\* C20 holds but for the arrays of values that are no records: the load
\* gives the empty collection when nothing is stored and when it catches an
\* error
C20_EmptyOnNothingOrError ==
    [][/\ (isLoading /\ ~isLoading' /\ (LoadsNothing(storage) \/ LoadThrows(storage)))
            => exoplanets' = <<>>
       /\ (dirty /\ ~dirty')
            => /\ exoplanets' = exoplanets
               /\ storage' = storage \/ storage' = stringify(exoplanets)]_vars

----------------------------------------------------------------------------
(* Properties of the collection of the page (specification SpecApp) *)

\* the six numbers of a record that have the minimum 0
Bounded(r) ==
    <<r.orbitalPeriod, r.transitDepth, r.transitDuration, r.signalToNoiseRatio,
      r.stellarProperties.radius, r.stellarProperties.temperature>>

\* x >= 0
AtLeastZero(x) == ~x.nan /\ ~LessThan(x, 0)

\* C11: whatever forms were submitted, files imported and records deleted
\* since the empty collection, every record of the collection has a name
\* that is not empty after trimming and an orbital period, transit depth,
\* transit duration, signal-to-noise ratio, stellar radius and stellar
\* temperature of 0 or more.
C11_RecordInvariant ==
    \A k \in 1..Len(exoplanets) :
        /\ trim(exoplanets[k].name) # <<>>
        /\ \A j \in 1..6 : AtLeastZero(Bounded(exoplanets[k])[j])

\* C11 holds of the names, and the numbers are numbers
C11_NamedAndNumeric ==
    \A k \in 1..Len(exoplanets) :
        /\ trim(exoplanets[k].name) # <<>>
        /\ \A j \in 1..Len(RequiredNumbers(exoplanets[k])) :
              ~isNaN(RequiredNumbers(exoplanets[k])[j])

\* the ids of a collection
IdsOf(items) == {items[k].id : k \in 1..Len(items)}

\* C15: the ids of the records of the collection are pairwise distinct, a
\* record that stays in the collection keeps its id (and all it holds), and
\* a record that enters the collection has an id that was never handed out
\* before, so not the id of a deleted record either.
C15_IdsUniqueNeverReused ==
    /\ [](/\ Cardinality(IdsOf(exoplanets)) = Len(exoplanets)
           /\ \A id \in IdsOf(exoplanets) : id < nextId)
    /\ [][\A k \in 1..Len(exoplanets') :
            \/ \E j \in 1..Len(exoplanets) : exoplanets[j] = exoplanets'[k]
            \/ /\ exoplanets'[k].id >= nextId
               /\ exoplanets'[k].id < nextId'
               /\ exoplanets'[k].id \notin IdsOf(exoplanets)]_vars

\* C15 witness: the record with the first id was exported, imported again
\* and deleted, and a record was added after that: the collection holds the
\* second and third id.
C15_Witness ==
    /\ csvContent # <<>>
    /\ nextId = 3
    /\ Len(exoplanets) = 2
    /\ exoplanets[1].id = 1 /\ exoplanets[2].id = 2
    /\ exoplanets[1].name = exoplanets[2].name

\* a step in which an import completes: ids are drawn and the form is left
\* alone, or the result shown changes
ImportCompletes == (nextId' # nextId /\ formData' = formData) \/ importResult' # importResult

\* C16: when an import completes the collection goes in one step from what
\* it was to what it was followed by all records read, in order, whether or
\* not rows failed; when no record was read the collection stays as it is.
C16_ImportIsOneBatch ==
    [][ImportCompletes =>
        \E text \in Selectable :
            LET result == importFromCSV(hasUUID, text, nextId, now) IN
            /\ importResult' = Shown(result)
            /\ exoplanets' = exoplanets \o result.successful
            /\ result.successful = <<>> => exoplanets' = exoplanets]_vars

\* C16 witness: after a record was added by the form, a file of three rows
\* was imported whose second row failed: the collection is the record of the
\* form followed by the records of the first and the third row.
C16_Witness ==
    /\ importResult = [shown |-> TRUE, successful |-> 2, failed |-> <<3>>]
    /\ Len(exoplanets) = 3
    /\ exoplanets[1].name = <<"b">>
    /\ exoplanets[2].name = <<"a">> /\ exoplanets[2].notes = Undefined
    /\ exoplanets[3].name = <<"a">> /\ exoplanets[3].notes = <<"n">>

----------------------------------------------------------------------------
(* Properties of saving and loading (specifications SpecApp and SpecStore) *)

\* C21: whenever the collection of the page has been saved, loading what is
\* stored gives the collection back: as many records, in the same order,
\* equal in every field, the date included.
C21_SaveLoadRoundTrip == Ready => loadData(storage) = exoplanets

\* C21 holds of the collections whose records all have a date that is one
C21_RoundTripOfDated ==
    (Ready /\ \A k \in 1..Len(exoplanets) : exoplanets[k].dateAdded.valid)
        => loadData(storage) = exoplanets

\* C24: after the load, a step that changes the collection leaves the save
\* effect due, and whenever no effect is due what is stored is the
\* serialization of the collection in memory.
C24_SaveFollowsChange ==
    /\ [](Ready => storage = stringify(exoplanets))
    /\ [][(~isLoading /\ exoplanets' # exoplanets) => dirty']_vars

\* C24 witness: two records were added, the first was deleted, and the save
\* that followed has stored the one that is left.
C24_Witness ==
    /\ Ready
    /\ nextId = 2
    /\ Len(exoplanets) = 1 /\ exoplanets[1].id = 1
    /\ storage = stringify(exoplanets)

\* C25: as long as isLoading is true what is stored stays as it is, and a
\* step that changes what is stored is taken after the load and stores the
\* serialization of the collection in memory, the loaded one.
C25_NoSaveBeforeLoad ==
    [][/\ isLoading => storage' = storage
       /\ storage' # storage => (~isLoading' /\ storage' = stringify(exoplanets))]_vars

\* C25 witness: records were stored when the page started, the save effect
\* of the first render was skipped, the records were loaded and then saved.
C25_Witness ==
    /\ ~isLoading /\ ~dirty
    /\ Len(exoplanets) = 2
    /\ storage = stringify(exoplanets)

\* C26: exportToCSV throws on no collection the page can hold.
C26_ExportNeverThrows == ~ExportThrows(exoplanets)

\* C26 holds of the records the form adds: what throws is the record of an
\* imported row
C26_FormRecordsExport ==
    \A k \in 1..Len(exoplanets) :
        exoplanets[k].name = <<"b">> => ~ISOStringThrows(exoplanets[k].dateAdded)

\* prev without its k-th record
Without(prev, k) == SubSeq(prev, 1, k - 1) \o SubSeq(prev, k + 1, Len(prev))

\* the place of the record of id x
PlaceOf(prev, x) == CHOOSE k \in 1..Len(prev) : prev[k].id = x

\* C28: deleting id x from the collection gives the collection without the
\* one record of id x, the others as they were and in their order, and the
\* collection itself when no record has id x; a confirmed deletion is such a
\* step for an id of the collection, and a declined one changes nothing.
C28_DeletionFrame ==
    /\ [](\A x \in 0..MaxIds :
            removeById(exoplanets, x) =
                IF x \in IdsOf(exoplanets) THEN Without(exoplanets, PlaceOf(exoplanets, x))
                ELSE exoplanets)
    /\ [][DeleteConfirmed =>
            \E k \in 1..Len(exoplanets) : exoplanets' = Without(exoplanets, k)]_vars
    /\ [][Len(exoplanets') < Len(exoplanets) => DeleteConfirmed]_vars
    /\ [][DeleteDeclined => exoplanets' = exoplanets]_vars

\* C28 witness: of three records the second was deleted; the first and the
\* third are left, in that order.
C28_Witness ==
    /\ nextId = 3
    /\ Len(exoplanets) = 2
    /\ exoplanets[1].id = 0 /\ exoplanets[2].id = 2

----------------------------------------------------------------------------
(* Properties of the form handler (specification SpecSubmit) *)

\* a step in which a submission ends
SubmissionEnds == isSubmitting /\ ~isSubmitting'

\* what a submission that found errors leaves: no record added, the texts
\* entered kept, the errors shown
Rejected ==
    /\ exoplanets' = exoplanets
    /\ formData' = formData
    /\ val'.errors = validateFormData(formData)

\* what a submission that added a record leaves: one record more, at the
\* end, made of the form; the form empty
Added ==
    /\ Len(exoplanets') = Len(exoplanets) + 1
    /\ SubSeq(exoplanets', 1, Len(exoplanets)) = exoplanets
    /\ exoplanets'[Len(exoplanets')].name = trim(formData.name)
    /\ formData' = EmptyForm

\* C27: a submission of a form with errors adds nothing, keeps the form and
\* shows the errors; a submission of a form without errors adds exactly one
\* record at the end and empties the form; and a step taken while
\* isSubmitting is true ends the submission.
C27_SubmitAddsOrRejects ==
    /\ [][SubmissionEnds =>
            IF validateFormData(formData) # <<>> THEN Rejected ELSE Added]_vars
    /\ [][isSubmitting => ~isSubmitting']_vars

\* what a submission leaves when formDataToExoplanet throws: no record
\* added, the texts entered kept, the one error of the catch block shown
Caught ==
    /\ exoplanets' = exoplanets
    /\ formData' = formData
    /\ val'.errors = <<FailedToAdd>>

\* C27 as the code has it: a form without errors adds its record unless
\* making the record throws (crypto.randomUUID is missing); then nothing is
\* added, the form is kept and 'Failed to add exoplanet' is shown.
C27_SubmitAddsRejectsOrFails ==
    /\ [][SubmissionEnds =>
            IF validateFormData(formData) # <<>> THEN Rejected
            ELSE IF hasUUID THEN Added ELSE Caught]_vars
    /\ [][isSubmitting => ~isSubmitting']_vars

\* C27 witness: where crypto.randomUUID is missing a form without errors
\* was submitted: the submission has ended, the collection is empty, the
\* form still holds its texts and the error is shown.
C27_Witness ==
    /\ ~hasUUID /\ ~isSubmitting
    /\ validateFormData(formData) = <<>>
    /\ val.errors = <<FailedToAdd>>
    /\ exoplanets = <<>>

----------------------------------------------------------------------------
(* Properties of analyzeViaAPI (specification SpecAI) *)

\* the call met one of the failures: the network, the time limit, the
\* status, the body, a record that cannot be serialized
CallFailed ==
    \/ ai.response.kind \in {"neterror", "timeout", "status", "nojson"}
    \/ ai.response.kind = "body" /\ ai.response.body.null
    \/ FormatThrows(data)

\* the one request of the call: an object per record, in the order of the
\* collection, each with the name and the date of its record, and the type
OneRequest ==
    /\ Len(ai.sent) = 1
    /\ ai.sent[1].analysis_type = ai.type
    /\ Len(ai.sent[1].data) = Len(data)
    /\ \A k \in 1..Len(data) :
          /\ ai.sent[1].data[k].name = data[k].name
          /\ ai.sent[1].data[k].date_added = toISOString(data[k].dateAdded)
          /\ ai.sent[1].data[k].stellar_magnitude = data[k].stellarProperties.magnitude

\* a call that met a failure has returned success = false and a message
FailureReturned == CallFailed => (~ai.result.success /\ ai.result.error # "")

----------------------------------------------------------------------------
(* Properties of the file reads (specifications SpecRead and LiveImportTab) *)

\* the records without their ids
Anonymous(records) == [k \in 1..Len(records) |-> [records[k] EXCEPT !.id = 0]]

\* the places of the collection held by records of a batch of ids
PlacesOf(batch) ==
    {j \in 1..Len(exoplanets) : \E k \in 1..Len(batch) : batch[k] = exoplanets[j].id}

\* the records of a batch that are in the collection stand side by side, in
\* the order of the batch, none of them twice
Contiguous(batch) ==
    /\ \A i, j \in PlacesOf(batch) : \A m \in i..j : m \in PlacesOf(batch)
    /\ \A i, j \in PlacesOf(batch) : i < j => exoplanets[i].id < exoplanets[j].id
    /\ \A k \in 1..Len(batch) :
          Cardinality({j \in 1..Len(exoplanets) : exoplanets[j].id = batch[k]}) <= 1

\* read k calls back in this step
CallsBack(k) == InFlight(k) /\ reads'[k].done

\* C22: when a reader calls back, whatever ran since it was started, the
\* collection grows at its end by the records its own text gives (the ids
\* apart), all of them, in their order; a record leaves the collection by a
\* deletion only; so the records of every batch that were not deleted stand
\* side by side in the collection, in the order of the batch, each once.
C22_ConcurrentImports ==
    /\ [][\A k \in 1..MaxReads : CallsBack(k) =>
            LET own == importFromCSV(hasUUID, reads[k].text, 0, now).successful
                new == SubSeq(exoplanets', Len(exoplanets) + 1, Len(exoplanets'))
            IN  /\ SubSeq(exoplanets', 1, Len(exoplanets)) = exoplanets
                /\ \/ Anonymous(new) = Anonymous(own) /\ Len(reads'[k].batch) = Len(own)
                   \/ new = <<>> /\ reads'[k].batch = <<>>
                /\ \A j \in 1..Len(new) : new[j].id = reads'[k].batch[j]]_vars
    /\ [][(\E j \in 1..Len(exoplanets) : exoplanets[j].id \notin IdsOf(exoplanets'))
            => DeleteConfirmed]_vars
    /\ [](\A k \in 1..Len(reads) : Contiguous(reads[k].batch))

\* C22 witness: a file of two valid rows was selected, the tab left and
\* entered again and a file of one valid row selected; the second reader
\* called back first, a record was added by the form, then the first reader
\* called back: the collection holds the batch of one, the record of the
\* form and the batch of two.
C22_Witness ==
    /\ Len(reads) = 2 /\ reads[1].done /\ reads[2].done
    /\ reads[2].batch = <<0>> /\ reads[1].batch = <<2, 3>>
    /\ Len(exoplanets) = 4
    /\ exoplanets[1].id = 0 /\ exoplanets[2].name = <<"b">>
    /\ exoplanets[3].id = 2 /\ exoplanets[4].id = 3

\* C29: isImporting becomes true only in a step that starts a read, a read
\* is started only while it is false, a selection that starts no read
\* leaves it false, and whenever it is true it becomes false again.
C29_ImportingEnds ==
    /\ [][(~isImporting /\ isImporting') => Len(reads') = Len(reads) + 1]_vars
    /\ [][Len(reads') > Len(reads) => (~isImporting /\ isImporting')]_vars
    /\ [][SelectOther => ~isImporting']_vars
    /\ (isImporting ~> ~isImporting)

\* C29 witness: a read was started and failed; isImporting is false again
\* and nothing is shown.
C29_Witness ==
    /\ Len(reads) = 1 /\ reads[1].done /\ reads[1].live /\ reads[1].batch = <<>>
    /\ hasUUID
    /\ ~isImporting
    /\ importResult = NoResult

\* the characters of a text
CharsOf(str) == {str[k] : k \in 1..Len(str)}

\* the rows that failed, by row number and error
RowsAndErrors(failed) ==
    [k \in 1..Len(failed) |-> [row |-> failed[k].row, error |-> failed[k].error]]

\* C30: when the import of a file with CR LF line ends has returned, the
\* records read are those read from the same file with LF line ends, the
\* rows that failed are the same rows with the same errors, and no name and
\* no notes of a record holds a carriage return.
C30_LineEndingIndependence ==
    (pc = "done" /\ csvContent \in CRLFTexts) =>
        LET lf == importFromCSV(hasUUID, WithLF(csvContent), 0, now) IN
        /\ imp.successful = lf.successful
        /\ RowsAndErrors(imp.failed) = RowsAndErrors(lf.failed)
        /\ \A k \in 1..Len(imp.successful) :
              /\ CR \notin CharsOf(imp.successful[k].name)
              /\ imp.successful[k].notes = Undefined
                 \/ CR \notin CharsOf(imp.successful[k].notes)

\* C30, the part that holds: the names and the numbers read, and the rows
\* that failed with their errors, are those of the file with LF line ends.
C30_SameNamesAndNumbers ==
    (pc = "done" /\ csvContent \in CRLFTexts) =>
        LET lf == importFromCSV(hasUUID, WithLF(csvContent), 0, now) IN
        /\ Len(imp.successful) = Len(lf.successful)
        /\ \A k \in 1..Len(imp.successful) :
              /\ imp.successful[k].name = lf.successful[k].name
              /\ RequiredNumbers(imp.successful[k]) = RequiredNumbers(lf.successful[k])
              /\ imp.successful[k].stellarProperties = lf.successful[k].stellarProperties
        /\ RowsAndErrors(imp.failed) = RowsAndErrors(lf.failed)

====
